---- MODULE Spec2Model ----
(***************************************************************************)
(* Model of the alibaba-scraper service.                                   *)
(*                                                                         *)
(* Part I  : BrowserManager (services/browser-manager.ts): the shared      *)
(*           browser handle, its launch memoisation, close, restart and    *)
(*           the 'disconnected' observer, under interleaved async callers. *)
(* Part II : one POST /scrape request: the handler, the browser retry loop *)
(*           (scrapeFromUrlWithBrowser), one browser attempt               *)
(*           (scrapeWithBrowser) and the fetch retry loop (scrapeFromUrl). *)
(*                                                                         *)
(* Node runs one event loop: an action is the code that runs between two   *)
(* awaits whose completion depends on the outside world (browser process,  *)
(* network, timers).  Continuations that run as microtasks of the same     *)
(* completion are part of the same action.                                 *)
(***************************************************************************)
EXTENDS Integers, FiniteSets, Sequences, TLC

\* ------------------------------------------------------------------ bounds
NumCallers == 2
MaxLaunches == 3
MaxCalls == 3

Callers == 1..NumCallers
Launches == 1..MaxLaunches

\* headlessOverride?: boolean | "new"; "new" and true are the same mode
\* (browser-manager.ts:60), so an override is absent, headless or visible.
Overrides == {"none", "headless", "visible"}

VARIABLES
  \* ---- BrowserManager fields
  browser,        \* this.browser: 0 (null) or the id of a launched browser
  isLaunching,    \* this.isLaunching
  launchPromise,  \* this.launchPromise: 0 (null) or the id of a launch
  headless,       \* this.headless, as its truth value
  execPath,       \* PUPPETEER_EXECUTABLE_PATH: "unset" | "set"
  \* ---- launches and browsers (the browser a launch makes has its id)
  lst,            \* launch -> "none" | "access" | "spawn" | "respawn" | "ok" | "failed"
  lmode,          \* launch -> the headless flag handed to puppeteer.launch
  bconn,          \* browser -> "none" | "connected" | "gone" (crashed or
                  \*   disconnected) | "closed" (by browser.close())
  \* ---- callers of the manager (async calls in flight)
  pc,             \* caller -> "idle" | "closing" | "launching" | "joined" | "returned"
  op,             \* caller -> "none" | "getBrowser" | "closeBrowser" | "restartBrowser"
  ovr,            \* caller -> the call's headlessOverride
  tgt,            \* caller -> the browser being closed / the launch awaited
  res,            \* caller -> 0 (nothing yet), -1 (threw), or the browser returned
  calls,          \* calls of the manager made so far
  \* ---- observations of a call (history, read by the properties only)
  early,          \* caller -> the call arrived before any launch had completed
  switching,      \* caller -> the call took the mode-switch branch
  nClose,         \* caller -> browser.close() calls made by the call
  nLaunch         \* caller -> launchBrowser() calls made by the call

VARIABLES
  \* ---- the request (POST /scrape body) and the process environment
  useBrowser,     \* req.body.useBrowser
  retries,        \* req.body.retries
  urlValid,       \* the normalised URL is structurally valid
  solver,         \* createCaptchaSolver(): "none" | "2captcha" | "other"
  nodeEnv,        \* NODE_ENV: "production" | "development"
  ppHeadless,     \* PUPPETEER_HEADLESS: "true" | "false"
  \* ---- control state of the request
  rpc,            \* where the request is
  attempt,        \* scrapeFromUrlWithBrowser's loop variable
  fattempt,       \* scrapeFromUrl's loop variable
  hasPage,        \* scrapeWithBrowser's `page` is set
  err,            \* the error the current attempt has thrown ("none": none)
  page,           \* what the loaded page holds: [sig, title, content]
  \* ---- history of the request
  nB,             \* browser attempts finished
  nF,             \* fetch attempts finished
  bAllBlocked,    \* every finished browser attempt ended blocked by anti-bot
  fAllDenied,     \* every finished fetch attempt ended on an access-denied page
  bLast,          \* lastError of scrapeFromUrlWithBrowser, as its kind
  opens,          \* browser.newPage() calls that returned a page
  closes,         \* page.close() calls
  gets,           \* getBrowser calls
  fetchCalls,     \* scrapeFromUrl calls
  lateBrowserOp,  \* a browser operation happened after the fetch path began
  solved1,        \* attempt 1 was auto-solved and the page left clean
  thrown,         \* the error kind that left the browser path / the request
  outcome,        \* "none" | "product" | "error"
  \* ---- the product cache (services/cache.ts over Redis)
  forceRefresh,   \* req.body.forceRefresh
  cacheEnabled,   \* isCacheAvailable(): cacheEnabled && redisClient !== null
  cacheHas,       \* what Redis holds under the URL's key:
                  \*   "none" | "product" | "garbage" (not JSON)
  cached,         \* the response carries cached: true
  cacheReads,     \* getCachedProduct calls of the request
  cacheWrites     \* setCachedProduct calls of the request

VARIABLES
  \* ---- timing and order within an attempt (read by the properties only)
  delay,          \* ms the retry loop slept before the current attempt
  contentWait,    \* the wait for page text after navigation, until the early
                  \*   check: "none" | "appeared" | "timeout"
  humanised,      \* the attempt's human-like steps so far: "none" | "delay"
                  \*   (pre-navigation delay) | "all" (pointer, scrolling)
  closeRes        \* page.close() of the attempt that has just ended: "none"
                  \*   (no page, or the next attempt has begun) | "ok" | "failed"

rghost == <<delay, contentWait, humanised, closeRes>>

VARIABLES
  \* ---- the cache keys (services/cache.ts), modelled on their own
  storedUrl,      \* the URL a product was stored under (NoUrl: none yet)
  lookedUrl,      \* the URL last looked up (NoUrl: none yet)
  hit             \* the last lookup found the stored product

keyvars == <<storedUrl, lookedUrl, hit>>

VARIABLES
  \* ---- the process and its SIGTERM / SIGINT handlers
  down,           \* "up" | "stopping" (a signal has arrived) | "exited"
  hpc,            \* handler -> "idle" | "closing" (awaiting browser.close())
                  \*   | "done" (its cleanupBrowser() has returned)
  htgt            \* the browser the handlers' closeBrowser calls close (0: none)

sdvars == <<down, hpc, htgt>>

VARIABLES
  \* ---- one call of CaptchaSolver.solveWith2Captcha (services/captcha-solver.ts)
  spc,            \* "parked" | "submit" (awaiting the in.php reply) | "sleep"
                  \*   (the wait before a poll) | "poll" (awaiting the res.php
                  \*   reply) | "done"
  ctimeout,       \* this.config.timeout, in time units
  cinterval,      \* this.config.pollingInterval, in time units
  elapsed,        \* Date.now() - startTime
  sres,           \* the result: "none" | "success" | "failure"
  \* ---- history of the call (read by the properties only)
  submitted,      \* the submission's reply: "none" | "ok" | "rejected" | "throws"
  polls,          \* polls started
  lastReply,      \* the last poll's reply: "none" | "token" | "notready" |
                  \*   "error" | "throws"
  headAt,         \* elapsed when the loop condition admitted the current round
  pollAt          \* elapsed when the last poll was started

cvars == <<spc, ctimeout, cinterval, elapsed, sres, submitted, polls, lastReply,
           headAt, pollAt>>

VARIABLES
  \* ---- one call of scrapeCheckoutFromUrlWithBrowser (browser-scraper.ts)
  qpc,            \* "parked" | "call" | "attempt" | "launch" | "newpage" |
                  \*   "work" | "pageclose" | "browserclose" | "done"
  qretries,       \* the retries argument
  qattempt,       \* the loop variable
  qerr,           \* the error the current attempt has thrown ("none": none)
  qBrowserOpen,   \* the attempt's own browser is running
  qPageOpen,      \* the attempt's page is open
  qoutcome,       \* "none" | "checkout" | "error"
  \* ---- history of the call (read by the properties only)
  qLaunched,      \* browsers launched
  qBrowserCloses, \* browser.close() calls
  qPages,         \* pages opened
  qPageCloses     \* page.close() calls

qvars == <<qpc, qretries, qattempt, qerr, qBrowserOpen, qPageOpen, qoutcome,
           qLaunched, qBrowserCloses, qPages, qPageCloses>>

\* Variables of the parts modelled on their own.
xvars == <<keyvars, sdvars, cvars, qvars>>

rcfg == <<useBrowser, retries, urlValid, solver, nodeEnv, ppHeadless,
          forceRefresh>>

rcache == <<cacheEnabled, cacheHas, cached, cacheReads, cacheWrites>>

rhist == <<nB, nF, bAllBlocked, fAllDenied, bLast>>

rvars == <<useBrowser, retries, urlValid, solver, nodeEnv, ppHeadless, rpc,
           attempt, fattempt, hasPage, err, page, nB, nF, bAllBlocked, fAllDenied, bLast, opens, closes, gets, fetchCalls, lateBrowserOp, solved1,
           thrown, outcome, forceRefresh, cacheEnabled, cacheHas, cached,
           cacheReads, cacheWrites, delay, contentWait, humanised,
           closeRes>>

mvars == <<browser, isLaunching, launchPromise, headless, execPath, lst, lmode,
           bconn, pc, op, ovr, tgt, res, calls, early, switching, nClose,
           nLaunch>>

\* ------------------------------------------------------------ helpers
\* No attempt has begun.
RGhost0 ==
  /\ delay = 0
  /\ contentWait = "none"
  /\ humanised = "none"
  /\ closeRes = "none"

IsHeadless(o) == o = "headless"

IsConnected(b) == b # 0 /\ bconn[b] = "connected"

\* Browsers launched by the manager whose process is still running.
Alive == {b \in Launches : bconn[b] = "connected"}

\* Launch operations that have started and not settled.
InFlight == {l \in Launches : lst[l] \in {"access", "spawn", "respawn"}}

Settled == {l \in Launches : lst[l] \in {"ok", "failed"}}

FreeLaunches == {l \in Launches : lst[l] = "none"}

\* Callers are the async calls in flight, kept in the lowest slots; a new call
\* takes the lowest free slot (the calls are interchangeable).
FreeSlot(c) == pc[c] = "idle" /\ \A d \in Callers : d < c => pc[d] # "idle"

\* getBrowser: "If browser exists but headless mode doesn't match, restart it"
NeedsRestartAnyOverride(o) ==
  /\ o # "none"
  /\ IsConnected(browser)
NeedsRestart(o) ==
  /\ o # "none"
  /\ IsConnected(browser)
  /\ IsHeadless(o) # headless

\* getBrowser: "Browser doesn't exist yet, use the override"
AdoptOverride(o, h) == IF o # "none" /\ browser = 0 THEN IsHeadless(o) ELSE h

\* getBrowser, after the restart's closeBrowser(): this.headless = headlessOverride
ModeAfterRestartKept(o, h) == h
ModeAfterRestart(o, h) == IsHeadless(o)

\* getBrowser: "If browser is launching, wait for it"
ShouldJoinNever(il, lp) == FALSE
ShouldJoin(il, lp) == il /\ lp # 0

\* launchBrowser, browser-manager.ts: the executable path is checked with two
\* awaits before the launch options (and this.headless) are read.
FirstLaunchState == IF execPath = "set" THEN "access" ELSE "spawn"

\* getBrowser's finally, once the launch l it awaited has settled:
\* "this.launchPromise = null" (with "this.isLaunching = false").
LaunchSettledKeepsPromise(l) == l
LaunchSettled(l) == 0

\* launchBrowser catch: one retry without the path when the browser was not
\* found.  (The older build in part_002 rethrows instead: its launches are the
\* ones here that fail with another error.)
RetriesBundledAlways(kind) == TRUE
RetriesBundled(kind) == kind = "notfound"

\* The constructor: this.headless and this.executablePath come from the
\* process environment.
InitMgr ==
  /\ browser = 0
  /\ isLaunching = FALSE
  /\ launchPromise = 0
  /\ headless \in BOOLEAN
  /\ execPath \in {"unset", "set"}
  /\ lst = [l \in Launches |-> "none"]
  /\ lmode = [l \in Launches |-> FALSE]
  /\ bconn = [l \in Launches |-> "none"]
  /\ pc = [c \in Callers |-> "idle"]
  /\ op = [c \in Callers |-> "none"]
  /\ ovr = [c \in Callers |-> "none"]
  /\ tgt = [c \in Callers |-> 0]
  /\ res = [c \in Callers |-> 0]
  /\ calls = 0
  /\ early = [c \in Callers |-> FALSE]
  /\ switching = [c \in Callers |-> FALSE]
  /\ nClose = [c \in Callers |-> 0]
  /\ nLaunch = [c \in Callers |-> 0]


\* ------------------------------------------------------------ getBrowser
\* The tail of getBrowser (from "If browser exists and is connected, return
\* it"), run by caller c with this.browser = b and this.headless = h: return
\* the connected browser, join the launch in flight, or start a launch (which
\* runs launchBrowser up to its first await).
Acquire(c, b, h) ==
  /\ headless' = h
  /\ IF b # 0 /\ bconn[b] = "connected"
     THEN /\ pc' = [pc EXCEPT ![c] = "returned"]
          /\ res' = [res EXCEPT ![c] = b]
          /\ tgt' = [tgt EXCEPT ![c] = 0]
          /\ browser' = b
          /\ UNCHANGED <<isLaunching, launchPromise, lst, lmode, nLaunch>>
     ELSE IF ShouldJoin(isLaunching, launchPromise)
     THEN /\ pc' = [pc EXCEPT ![c] = "joined"]
          /\ tgt' = [tgt EXCEPT ![c] = launchPromise]
          /\ browser' = b
          /\ UNCHANGED <<isLaunching, launchPromise, lst, lmode, nLaunch, res>>
     ELSE /\ FreeLaunches # {}
          /\ LET l == CHOOSE x \in FreeLaunches : \A y \in FreeLaunches : x <= y
             IN /\ isLaunching' = TRUE
                /\ launchPromise' = l
                /\ lst' = [lst EXCEPT ![l] = FirstLaunchState]
                /\ lmode' = [lmode EXCEPT ![l] = h]
                /\ pc' = [pc EXCEPT ![c] = "launching"]
                /\ tgt' = [tgt EXCEPT ![c] = l]
                /\ nLaunch' = [nLaunch EXCEPT ![c] = @ + 1]
          /\ browser' = b
          /\ UNCHANGED res

\* closeBrowser up to "await this.browser.close()": caller c starts closing
\* the cached browser.
BeginClose(c) ==
  /\ pc' = [pc EXCEPT ![c] = "closing"]
  /\ tgt' = [tgt EXCEPT ![c] = browser]
  /\ nClose' = [nClose EXCEPT ![c] = @ + 1]

\* getBrowser(headlessOverride) from its entry to its first await or return.
GetBrowser(c, o) ==
  /\ FreeSlot(c)
  /\ calls < MaxCalls
  /\ calls' = calls + 1
  /\ op' = [op EXCEPT ![c] = "getBrowser"]
  /\ ovr' = [ovr EXCEPT ![c] = o]
  /\ early' = [early EXCEPT ![c] = (browser = 0 /\ Settled = {})]
  /\ switching' = [switching EXCEPT ![c] = NeedsRestart(o)]
  /\ IF NeedsRestart(o)
     THEN /\ BeginClose(c)
          /\ UNCHANGED <<browser, isLaunching, launchPromise, headless, lst,
                         lmode, res, nLaunch>>
     ELSE /\ Acquire(c, browser, AdoptOverride(o, headless))
          /\ UNCHANGED nClose
  /\ UNCHANGED <<execPath, bconn>>
  /\ UNCHANGED rvars
  /\ UNCHANGED xvars

\* closeBrowser(), called directly (cleanupBrowser on SIGTERM / SIGINT).
CloseBrowser(c) ==
  /\ FreeSlot(c)
  /\ calls < MaxCalls
  /\ calls' = calls + 1
  /\ op' = [op EXCEPT ![c] = "closeBrowser"]
  /\ IF browser # 0
     THEN /\ BeginClose(c)
          /\ UNCHANGED res
     ELSE /\ pc' = [pc EXCEPT ![c] = "returned"]
          /\ UNCHANGED <<tgt, nClose, res>>
  /\ UNCHANGED <<browser, isLaunching, launchPromise, headless, execPath, lst,
                 lmode, bconn, ovr, early, switching, nLaunch>>
  /\ UNCHANGED rvars
  /\ UNCHANGED xvars

\* restartBrowser(): closeBrowser(), then getBrowser() with no override.
RestartBrowser(c) ==
  /\ FreeSlot(c)
  /\ calls < MaxCalls
  /\ calls' = calls + 1
  /\ op' = [op EXCEPT ![c] = "restartBrowser"]
  /\ IF browser # 0
     THEN /\ BeginClose(c)
          /\ UNCHANGED <<browser, isLaunching, launchPromise, headless, lst,
                         lmode, res, nLaunch>>
     ELSE /\ Acquire(c, browser, headless)
          /\ UNCHANGED nClose
  /\ UNCHANGED <<execPath, bconn, ovr, early, switching>>
  /\ UNCHANGED rvars
  /\ UNCHANGED xvars

\* browser.close() settles for caller c (resolved or rejected: the catch
\* swallows a rejection).  The browser is gone; closeBrowser's finally clears
\* this.browser, whichever browser is cached by now; the caller continues.
CloseDone(c) ==
  /\ pc[c] = "closing"
  /\ bconn' = [bconn EXCEPT ![tgt[c]] = "closed"]
  /\ CASE op[c] = "closeBrowser" ->
            /\ browser' = 0
            /\ pc' = [pc EXCEPT ![c] = "returned"]
            /\ tgt' = [tgt EXCEPT ![c] = 0]
            /\ UNCHANGED <<isLaunching, launchPromise, headless, lst, lmode,
                           res, nLaunch>>
       [] op[c] = "getBrowser" ->
            Acquire(c, 0, ModeAfterRestart(ovr[c], headless))
       [] op[c] = "restartBrowser" -> Acquire(c, 0, headless)
  /\ UNCHANGED <<execPath, calls, op, ovr, early, switching, nClose>>
  /\ UNCHANGED rvars
  /\ UNCHANGED xvars

\* ------------------------------------------------------------ launchBrowser
\* browser-manager.ts with an executable path: fs.access has settled; the
\* launch options are built now, reading this.headless.
LaunchAccess(l) ==
  /\ lst[l] = "access"
  /\ lst' = [lst EXCEPT ![l] = "spawn"]
  /\ lmode' = [lmode EXCEPT ![l] = headless]
  /\ UNCHANGED <<browser, isLaunching, launchPromise, headless, execPath, calls,
                 bconn, pc, op, ovr, tgt, res, early, switching, nClose,
                 nLaunch>>
  /\ UNCHANGED rvars
  /\ UNCHANGED xvars

\* puppeteer.launch resolves: the 'disconnected' observer is registered, the
\* launch promise resolves, and the launching caller's continuation stores the
\* browser and runs its finally.
LaunchOk(l) ==
  /\ lst[l] \in {"spawn", "respawn"}
  /\ lst' = [lst EXCEPT ![l] = "ok"]
  /\ bconn' = [bconn EXCEPT ![l] = "connected"]
  /\ browser' = l
  /\ isLaunching' = FALSE
  /\ launchPromise' = LaunchSettled(l)
  /\ pc' = [c \in Callers |->
              IF pc[c] = "launching" /\ tgt[c] = l THEN "returned" ELSE pc[c]]
  /\ res' = [c \in Callers |->
              IF pc[c] = "launching" /\ tgt[c] = l THEN l ELSE res[c]]
  /\ tgt' = [c \in Callers |->
              IF pc[c] = "launching" /\ tgt[c] = l THEN 0 ELSE tgt[c]]
  /\ UNCHANGED <<headless, execPath, calls, lmode, op, ovr, early, switching,
                 nClose, nLaunch>>
  /\ UNCHANGED rvars
  /\ UNCHANGED xvars

\* puppeteer.launch rejects.  kind "notfound" is an error whose message names
\* the executable path; any other error is "other".
LaunchFail(l, kind) ==
  /\ lst[l] \in {"spawn", "respawn"}
  /\ IF lst[l] = "spawn" /\ RetriesBundled(kind)
     THEN /\ lst' = [lst EXCEPT ![l] = "respawn"]
          /\ lmode' = [lmode EXCEPT ![l] = headless]
          /\ UNCHANGED <<isLaunching, launchPromise, pc, res, tgt>>
     ELSE /\ lst' = [lst EXCEPT ![l] = "failed"]
          /\ isLaunching' = FALSE
          /\ launchPromise' = LaunchSettled(l)
          /\ pc' = [c \in Callers |->
                IF pc[c] = "launching" /\ tgt[c] = l THEN "returned" ELSE pc[c]]
          /\ res' = [c \in Callers |->
                IF pc[c] = "launching" /\ tgt[c] = l THEN -1 ELSE res[c]]
          /\ tgt' = [c \in Callers |->
                IF pc[c] = "launching" /\ tgt[c] = l THEN 0 ELSE tgt[c]]
          /\ lmode' = [lmode EXCEPT ![l] = FALSE]
  /\ UNCHANGED <<browser, headless, execPath, calls, bconn, op, ovr, early,
                 switching, nClose, nLaunch>>
  /\ UNCHANGED rvars
  /\ UNCHANGED xvars

\* A caller that returned this.launchPromise sees it settle.
JoinReturn(c) ==
  /\ pc[c] = "joined"
  /\ tgt[c] \in Settled
  /\ pc' = [pc EXCEPT ![c] = "returned"]
  /\ res' = [res EXCEPT ![c] = IF lst[tgt[c]] = "ok" THEN tgt[c] ELSE -1]
  /\ tgt' = [tgt EXCEPT ![c] = 0]
  /\ UNCHANGED <<browser, isLaunching, launchPromise, headless, execPath, calls, lst,
                 lmode, bconn, op, ovr, early, switching, nClose, nLaunch>>
  /\ UNCHANGED rvars
  /\ UNCHANGED xvars

\* The 'disconnected' observer: "this.browser = null", whatever is cached.
HandleAfterDisconnectKept(cur) == cur
HandleAfterDisconnect(cur) == 0

\* browser.on("disconnected"): browser b crashes or its connection drops;
\* the observer clears this.browser.
Disconnected(b) ==
  /\ bconn[b] = "connected"
  /\ bconn' = [bconn EXCEPT ![b] = "gone"]
  /\ browser' = HandleAfterDisconnect(browser)
  /\ UNCHANGED <<isLaunching, launchPromise, headless, execPath, calls, lst, lmode,
                 pc, op, ovr, tgt, res, early, switching, nClose, nLaunch>>
  /\ UNCHANGED rvars
  /\ UNCHANGED xvars

\* The caller of a finished call takes its result and the call is over.  The
\* calls in flight are kept in the lowest slots: the ones after c move down.
Drop(f, c, empty) ==
  [d \in Callers |-> IF d < c THEN f[d]
                     ELSE IF d < NumCallers THEN f[d + 1]
                     ELSE empty]

Release(c) ==
  /\ pc' = Drop(pc, c, "idle")
  /\ op' = Drop(op, c, "none")
  /\ ovr' = Drop(ovr, c, "none")
  /\ tgt' = Drop(tgt, c, 0)
  /\ res' = Drop(res, c, 0)
  /\ early' = Drop(early, c, FALSE)
  /\ switching' = Drop(switching, c, FALSE)
  /\ nClose' = Drop(nClose, c, 0)
  /\ nLaunch' = Drop(nLaunch, c, 0)
  /\ UNCHANGED <<browser, isLaunching, launchPromise, headless, execPath, calls, lst,
                 lmode, bconn>>
  /\ UNCHANGED rvars
  /\ UNCHANGED xvars

Finish(c) ==
  /\ pc[c] = "returned"
  /\ Release(c)

\* ------------------------------------------------------------ pages
\* scrapeWithBrowser after its getBrowser call returned a browser:
\* "page = await browser.newPage()" resolves on the browser the call was
\* given.  The page is the execution's own local; caller c now stands for the
\* execution with its page open on browser res[c].
NewPage(c) ==
  /\ pc[c] = "returned"
  /\ op[c] = "getBrowser"
  /\ res[c] > 0
  /\ bconn[res[c]] = "connected"
  /\ pc' = [pc EXCEPT ![c] = "page"]
  /\ UNCHANGED <<browser, isLaunching, launchPromise, headless, execPath, lst,
                 lmode, bconn, op, ovr, tgt, res, calls, early, switching,
                 nClose, nLaunch>>
  /\ UNCHANGED rvars
  /\ UNCHANGED xvars

\* scrapeWithBrowser's finally: "await page.close()" (a rejection is caught),
\* and the execution returns or throws.
ClosePage(c) ==
  /\ pc[c] = "page"
  /\ Release(c)

\* An execution's page is open on a browser that browser.close() has ended.
PageClosedUnder(c) == pc[c] = "page" /\ bconn[res[c]] = "closed"

\* scrapeWithBrowser executions sharing the manager: each calls getBrowser
\* with its headless setting, opens its page, works on it and closes it;
\* getBrowser rejecting, or newPage rejecting, ends the execution at once.
PageStep ==
  \/ \E c \in Callers, o \in {"headless", "visible"} : GetBrowser(c, o)
  \/ \E c \in Callers : CloseDone(c)
  \/ \E l \in Launches : LaunchAccess(l)
  \/ \E l \in Launches : LaunchOk(l)
  \/ \E l \in Launches, k \in {"notfound", "other"} : LaunchFail(l, k)
  \/ \E c \in Callers : JoinReturn(c)
  \/ \E b \in Launches : Disconnected(b)
  \/ \E c \in Callers : NewPage(c)
  \/ \E c \in Callers : ClosePage(c)
  \/ \E c \in Callers : Finish(c)

MgrStep ==
  \/ \E c \in Callers, o \in Overrides : GetBrowser(c, o)
  \/ \E c \in Callers : CloseBrowser(c)
  \/ \E c \in Callers : RestartBrowser(c)
  \/ \E c \in Callers : CloseDone(c)
  \/ \E l \in Launches : LaunchAccess(l)
  \/ \E l \in Launches : LaunchOk(l)
  \/ \E l \in Launches, k \in {"notfound", "other"} : LaunchFail(l, k)
  \/ \E c \in Callers : JoinReturn(c)
  \/ \E b \in Launches : Disconnected(b)
  \/ \E c \in Callers : Finish(c)

\* Calls made one at a time: a call starts only when no other is in flight.
SeqStep ==
  \/ \E c \in Callers, o \in Overrides :
        (\A d \in Callers : pc[d] = "idle") /\ GetBrowser(c, o)
  \/ \E c \in Callers :
        (\A d \in Callers : pc[d] = "idle") /\ CloseBrowser(c)
  \/ \E c \in Callers :
        (\A d \in Callers : pc[d] = "idle") /\ RestartBrowser(c)
  \/ \E c \in Callers : CloseDone(c)
  \/ \E l \in Launches : LaunchAccess(l)
  \/ \E l \in Launches : LaunchOk(l)
  \/ \E l \in Launches, k \in {"notfound", "other"} : LaunchFail(l, k)
  \/ \E b \in Launches : Disconnected(b)
  \/ \E c \in Callers : Finish(c)


\* ===================================================================
\* Part II: one POST /scrape request
\* ===================================================================
MaxRetries == 3

\* scrapeFromUrl(url, retries = 3); the handler calls it without retries.
DefaultFetchRetries == 3

\* What a loaded page holds.  sig: the block signals in it;
\*   "captcha"  the markup holds "captcha", "security check" or "verify you
\*              are human", or a captcha element exists
\*   "verify"   the body text holds "verify"
\*   "unusual"  the body text holds "unusual traffic"
\*   "blocked"  markup, title or URL hold "access denied", "blocked" or
\*              "challenge", or a challenge element exists
\* title: what the extractor finds; content: body text longer than 200.
Signals == {"captcha", "verify", "unusual", "blocked"}
SigSets == SUBSET Signals
PageStates == [sig : SigSets, title : {"ok", "unknown"}, content : BOOLEAN]
NoPage == [sig |-> {}, title |-> "unknown", content |-> FALSE]

\* DEFAULT_CONFIG.headless
DefaultHeadless ==
  IF nodeEnv = "production" THEN ppHeadless # "false" ELSE ppHeadless = "true"

\* "If in development mode and browser is visible, wait for manual captcha solving"
Interactive == ~DefaultHeadless /\ nodeEnv = "development"

\* The early check: captchaCheck.hasCaptchaText || captchaCheck.hasRecaptcha
EarlyBlocked(p) == p.sig \cap {"captcha", "unusual"} # {}

\* The re-check after token injection: no "unusual traffic", no "verify"
RecheckClear(p) == p.sig \cap {"unusual", "verify"} = {}

\* The manual wait's checks: stillHasCaptcha
ManualStill(p) == p.sig \cap {"unusual", "verify"} # {}

\* scrapeFromUrlWithBrowser: "if (attempt > 1) { const delay = 3000 * attempt"
BrowserBackoffFixed(k) == IF k > 1 THEN 3000 ELSE 0
BrowserBackoff(k) == IF k > 1 THEN 3000 * k ELSE 0

\* scrapeFromUrl: "if (attempt > 1) ... setTimeout(resolve, 2000 * attempt)"
FetchBackoff(k) == IF k > 1 THEN 2000 * k ELSE 0

\* scrapeWithBrowser, the wait for page text ending with w: a timeout is
\* caught ("Timeout waiting for page content, continuing anyway...").
AfterContentWaitStrict(w) == IF w = "timeout" THEN "throw" ELSE "check"
AfterContentWait(w) == "check"

\* What the automatic solving's try block throws: every result but a token
\* whose injection cleared the page ("Captcha solving failed: ...",
\* "Automatic captcha solving did not work - page still shows captcha", or
\* the solver's own "... is not yet implemented").
SolveThrown(r, clear) == IF r = "token" /\ clear THEN "none" ELSE "solveError"

\* Whether an error of the automatic solving leaves its try/catch: the catch
\* logs it and falls through ("Fall through to manual solving or error").
AutoSolveEscapesAll(e) == e # "none"
AutoSolveEscapes(e) == FALSE

\* The manual wait's break condition:
\* !currentCheck.stillHasCaptcha && currentCheck.hasContent
WaitExitsOnDeadlineOnly(p) == FALSE
WaitExits(p) == ~ManualStill(p) /\ p.content

\* scrapeWithBrowser, "Simulating human behavior...": the pointer is moved and
\* the page scrolled twice; h is what the attempt had done before.
HumaniseSkipped(h) == h
Humanise(h) == "all"

\* The final check: hasCaptcha || captchaElements
FinalBlockedLikeEarly(p) == p.sig \cap {"captcha", "unusual"} # {}
FinalBlocked(p) == p.sig \cap {"captcha", "unusual", "blocked"} # {}

\* product.title is missing or "Unknown Product"
TitleMissing(p) == p.title = "unknown"

\* The substrings the code searches error messages for, per error kind
\* (the message each kind carries is quoted with the action that throws it).
Needles(e) ==
  CASE e = "notfound"       -> {"Browser was not found"}
    [] e = "launchfail"     -> {}
    [] e = "newpage"        -> {}
    [] e = "navtimeout"     -> {"timeout"}
    [] e = "invalidurl"     -> {"invalid URL"}
    [] e = "disconnected"   -> {}
    [] e = "captchaBlocked" -> {}
    [] e = "captchaTimeout" -> {"timeout"}
    [] e = "extract"        -> {"extract", "structure"}
    [] e = "parseurl"       -> {"Failed to parse URL"}
    [] e = "network"        -> {}
    [] e = "fetchtimeout"   -> {"timeout"}
    [] e = "http404"        -> {"404"}
    [] e = "httpother"      -> {}
    [] e = "empty"          -> {}
    [] e = "denied"         -> {"Access denied", "blocked"}
    [] OTHER                -> {}

\* scrapeFromUrlWithBrowser: "Don't retry on certain errors (like browser not found)"
BrowserNoRetryWithExtract(e) ==
  Needles(e) \cap {"Browser was not found", "executablePath", "ENOENT",
                   "extract"} # {}
BrowserNoRetryNever(e) == FALSE
BrowserNoRetry(e) ==
  Needles(e) \cap {"Browser was not found", "executablePath", "ENOENT"} # {}

\* scrapeFromUrl: "Don't retry on certain errors"
FetchNoRetry(e) ==
  Needles(e) \cap {"Access Denied", "404", "invalid URL",
                   "Failed to parse URL"} # {}

\* The handler's reading of the final error message.
UserKind(e) ==
  IF Needles(e) \cap {"Access denied", "blocked"} # {} THEN "antibot"
  ELSE IF Needles(e) \cap {"timeout", "network"} # {} THEN "network"
  ELSE IF Needles(e) \cap {"extract", "structure"} # {} THEN "structure"
  ELSE "generic"

\* scrapeWithBrowser's finally: "if (page) { await page.close() }"
FinallyClosesOnSuccessOnly(hp, e) == hp /\ e = "none"
FinallyCloses(hp, e) == hp

\* scrapeWithBrowser's finally: a rejected page.close() is caught and logged;
\* the attempt ends as it would have (e: its error, "none" for a product).
AttemptErrorCloseWins(closing, closeOk, e) ==
  IF closing /\ ~closeOk THEN "pageclose" ELSE e
AttemptError(closing, closeOk, e) == e

\* The handler: "if (useBrowser) { try browser } else { scrapeFromUrl }"
FirstPathAlwaysFetch(ub) == "fetch"
FirstPath(ub) == IF ub THEN "browser" ELSE "fetch"

\* The handler: "if (!forceRefresh && isCacheAvailable())"
ConsultCacheAlways(fr, avail) == avail
ConsultCache(fr, avail) == ~fr /\ avail

\* getCachedProduct: the value Redis returned is parsed; a rejected get and a
\* value that is not JSON are caught and give null.  r: "value" | "error".
ReadResultThrows(r, has) ==
  IF r = "value" /\ has = "product" THEN "hit"
  ELSE IF r = "value" /\ has = "none" THEN "miss"
  ELSE "throw"
ReadResult(r, has) == IF r = "value" /\ has = "product" THEN "hit" ELSE "miss"

\* The handler, after a successful scrape: "if (isCacheAvailable())"
WritesCacheNever(avail) == FALSE
WritesCache(avail) == avail

\* setCachedProduct: a rejected setex is caught ("Don't throw").
WriteResult(ok) == IF ok THEN "stored" ELSE "skipped"

\* A request served without the cache (Redis not configured).
InitReq ==
  /\ useBrowser \in BOOLEAN
  /\ retries \in 0..MaxRetries
  /\ urlValid \in BOOLEAN
  /\ solver \in {"none", "2captcha", "other"}
  /\ nodeEnv \in {"production", "development"}
  /\ ppHeadless \in {"true", "false"}
  /\ rpc = "start"
  /\ attempt = 0
  /\ fattempt = 0
  /\ hasPage = FALSE
  /\ err = "none"
  /\ page = NoPage
  /\ nB = 0
  /\ nF = 0
  /\ bAllBlocked = TRUE
  /\ fAllDenied = TRUE
  /\ bLast = "none"
  /\ opens = 0
  /\ closes = 0
  /\ gets = 0
  /\ fetchCalls = 0
  /\ lateBrowserOp = FALSE
  /\ solved1 = FALSE
  /\ thrown = "none"
  /\ outcome = "none"
  /\ forceRefresh = FALSE
  /\ cacheEnabled = FALSE
  /\ cacheHas = "none"
  /\ cached = FALSE
  /\ cacheReads = 0
  /\ cacheWrites = 0
  /\ RGhost0


\* ------------------------------------------------------------ fetch path
\* scrapeFromUrl(url) is called: its loop starts at attempt 1.
EnterFetch ==
  /\ fetchCalls' = fetchCalls + 1
  /\ fattempt' = 1
  /\ rpc' = "f_attempt"

\* The handler's catch (part_000:125-131) after the browser path threw e.
BrowserPathFailed(e) ==
  /\ thrown' = e
  /\ EnterFetch
  /\ UNCHANGED attempt

\* scrapeFromUrlWithBrowser's catch: a browser attempt ended with error e.
LoopCatch(e) ==
  /\ nB' = nB + 1
  /\ bAllBlocked' = (bAllBlocked /\ e = "captchaBlocked")
  /\ bLast' = e
  /\ IF BrowserNoRetry(e)
     THEN BrowserPathFailed("notfound")
     ELSE IF attempt = retries
     THEN BrowserPathFailed(e)
     ELSE /\ attempt' = attempt + 1
          /\ rpc' = "b_attempt"
          /\ UNCHANGED <<fetchCalls, fattempt, thrown>>

\* The scrape begins: the browser retry loop, or the fetch loop.
StartScrape ==
  IF FirstPath(useBrowser) = "browser"
  THEN IF retries >= 1
       THEN /\ attempt' = 1
            /\ rpc' = "b_attempt"
            /\ UNCHANGED <<fetchCalls, fattempt, thrown>>
       ELSE BrowserPathFailed("exhausted")
  ELSE /\ EnterFetch
       /\ UNCHANGED <<attempt, thrown>>

\* The scrape has produced a product: the cache write, if the cache is
\* available, then the response.
ScrapeSucceeded ==
  IF WritesCache(cacheEnabled)
  THEN /\ rpc' = "c_write"
       /\ cacheWrites' = cacheWrites + 1
       /\ UNCHANGED outcome
  ELSE /\ rpc' = "done"
       /\ outcome' = "product"
       /\ UNCHANGED cacheWrites

\* POST /scrape, from the body's defaults to its first await: the cache read
\* or, without it, the scrape.
H_Start ==
  /\ rpc = "start"
  /\ IF ConsultCache(forceRefresh, cacheEnabled)
     THEN /\ rpc' = "c_read"
          /\ cacheReads' = cacheReads + 1
          /\ UNCHANGED <<attempt, fattempt, fetchCalls, thrown>>
     ELSE /\ StartScrape
          /\ UNCHANGED cacheReads
  /\ UNCHANGED <<rcfg, hasPage, err, page, rhist, opens, closes, gets,
                 lateBrowserOp, solved1, outcome, cacheEnabled, cacheHas,
                 cached, cacheWrites>>
  /\ UNCHANGED mvars
  /\ UNCHANGED rghost
  /\ UNCHANGED xvars

\* getCachedProduct settles (redisClient.get resolved with the stored value,
\* or rejected): a hit is answered from the cache, anything else is a miss.
C_Read(r) ==
  /\ rpc = "c_read"
  /\ LET v == ReadResult(r, cacheHas)
     IN CASE v = "hit" ->
               /\ rpc' = "done"
               /\ outcome' = "product"
               /\ cached' = TRUE
               /\ UNCHANGED <<attempt, fattempt, fetchCalls, thrown>>
          [] v = "miss" ->
               /\ StartScrape
               /\ UNCHANGED <<outcome, cached>>
          [] v = "throw" ->
               /\ rpc' = "done"
               /\ outcome' = "error"
               /\ thrown' = "cache"
               /\ UNCHANGED <<attempt, fattempt, fetchCalls, cached>>
  /\ UNCHANGED <<rcfg, hasPage, err, page, rhist, opens, closes, gets,
                 lateBrowserOp, solved1, cacheEnabled, cacheHas, cacheReads,
                 cacheWrites>>
  /\ UNCHANGED mvars
  /\ UNCHANGED rghost
  /\ UNCHANGED xvars

\* setCachedProduct settles (setex resolved or rejected), then the response.
C_Write(ok) ==
  /\ rpc = "c_write"
  /\ LET v == WriteResult(ok)
     IN /\ cacheHas' = IF v = "stored" THEN "product" ELSE cacheHas
        /\ outcome' = IF v = "throw" THEN "error" ELSE "product"
        /\ thrown' = IF v = "throw" THEN "cache" ELSE thrown
  /\ rpc' = "done"
  /\ UNCHANGED <<rcfg, attempt, fattempt, hasPage, err, page, rhist, opens,
                 closes, gets, fetchCalls, lateBrowserOp, solved1,
                 cacheEnabled, cached, cacheReads, cacheWrites>>
  /\ UNCHANGED mvars
  /\ UNCHANGED rghost
  /\ UNCHANGED xvars

\* redisClient "error" / "close" event: cacheEnabled = false, for good.
RedisDown ==
  /\ cacheEnabled
  /\ rpc # "done"
  /\ cacheEnabled' = FALSE
  /\ UNCHANGED <<rcfg, rpc, attempt, fattempt, hasPage, err, page, rhist,
                 opens, closes, gets, fetchCalls, lateBrowserOp, solved1,
                 thrown, outcome, cacheHas, cached, cacheReads, cacheWrites>>
  /\ UNCHANGED mvars
  /\ UNCHANGED rghost
  /\ UNCHANGED xvars

\* ------------------------------------------------------------ browser path
\* One loop iteration up to scrapeWithBrowser's getBrowser call (after the
\* backoff delay when attempt > 1).
B_Attempt ==
  /\ rpc = "b_attempt"
  /\ rpc' = "b_get"
  /\ delay' = BrowserBackoff(attempt)
  /\ contentWait' = "none"
  /\ humanised' = "none"
  /\ closeRes' = "none"
  /\ gets' = gets + 1
  /\ lateBrowserOp' = (lateBrowserOp \/ fetchCalls > 0)
  /\ UNCHANGED <<rcfg, attempt, fattempt, hasPage, err, page, rhist, opens,
                 closes, fetchCalls, solved1, thrown, outcome>>
  /\ UNCHANGED rcache
  /\ UNCHANGED mvars
  /\ UNCHANGED xvars

\* getBrowser settles.  A rejection is rethrown before the try that owns the
\* page, straight into the retry loop's catch.
B_GetBrowser(r) ==
  /\ rpc = "b_get"
  /\ IF r = "ok"
     THEN /\ rpc' = "b_newpage"
          /\ UNCHANGED <<attempt, fattempt, rhist, fetchCalls, thrown>>
     ELSE /\ LoopCatch(r)
          /\ UNCHANGED <<nF, fAllDenied>>
  /\ UNCHANGED <<rcfg, hasPage, err, page, opens, closes, gets,
                 lateBrowserOp, solved1, outcome>>
  /\ UNCHANGED rcache
  /\ UNCHANGED mvars
  /\ UNCHANGED rghost
  /\ UNCHANGED xvars

\* browser.newPage() settles.
B_NewPage(ok) ==
  /\ rpc = "b_newpage"
  /\ lateBrowserOp' = (lateBrowserOp \/ fetchCalls > 0)
  /\ IF ok
     THEN /\ hasPage' = TRUE
          /\ opens' = opens + 1
          /\ rpc' = "b_nav"
          /\ UNCHANGED err
     ELSE /\ err' = "newpage"
          /\ rpc' = "b_finally"
          /\ UNCHANGED <<hasPage, opens>>
  /\ UNCHANGED <<rcfg, attempt, fattempt, page, rhist, closes, gets,
                 fetchCalls, solved1, thrown, outcome>>
  /\ UNCHANGED rcache
  /\ UNCHANGED mvars
  /\ UNCHANGED rghost
  /\ UNCHANGED xvars

\* Page setup and page.goto settle; on success the page has loaded np.
B_Navigate(r, np) ==
  /\ rpc = "b_nav"
  /\ (r = "invalidurl") = ~urlValid
  /\ r # "ok" => np = NoPage
  /\ humanised' = "delay"
  /\ UNCHANGED <<delay, closeRes>>
  /\ IF r = "ok"
     THEN \E w \in {"appeared", "timeout"} :
            /\ contentWait' = w
            /\ IF AfterContentWait(w) = "check"
               THEN /\ page' = np
                    /\ rpc' = "b_early"
                    /\ UNCHANGED err
               ELSE /\ err' = "navtimeout"
                    /\ rpc' = "b_finally"
                    /\ UNCHANGED page
     ELSE /\ err' = r
          /\ rpc' = "b_finally"
          /\ UNCHANGED <<page, contentWait>>
  /\ UNCHANGED <<rcfg, attempt, fattempt, hasPage, rhist, opens, closes,
                 gets, fetchCalls, lateBrowserOp, solved1, thrown, outcome>>
  /\ UNCHANGED rcache
  /\ UNCHANGED mvars
  /\ UNCHANGED xvars

\* "wait for manual captcha solving" or fail: the decision taken after the
\* early check found a challenge (and after the automatic solving, if any).
ManualOrFail ==
  IF Interactive
  THEN /\ rpc' = "b_manual1"
       /\ UNCHANGED err
  ELSE /\ err' = "captchaBlocked"
       /\ rpc' = "b_finally"

\* The early check.  conn: the page is open and the browser connected.
B_EarlyCheck(conn) ==
  /\ rpc = "b_early"
  /\ contentWait' = "none"
  /\ UNCHANGED <<delay, humanised, closeRes>>
  /\ IF ~conn
     THEN /\ err' = "disconnected"
          /\ rpc' = "b_finally"
     ELSE IF EarlyBlocked(page)
     THEN IF solver # "none"
          THEN /\ rpc' = "b_solve"
               /\ UNCHANGED err
          ELSE ManualOrFail
     ELSE /\ rpc' = "b_settle"
          /\ UNCHANGED err
  /\ UNCHANGED <<rcfg, attempt, fattempt, hasPage, page, rhist, opens,
                 closes, gets, fetchCalls, lateBrowserOp, solved1, thrown,
                 outcome>>
  /\ UNCHANGED rcache
  /\ UNCHANGED mvars
  /\ UNCHANGED xvars

\* captchaSolver.solveSliderCaptcha settles with r; a token is injected and
\* the page, now np, is re-checked.  Every failure is caught; then the manual
\* or fail decision follows.
B_Solve(r, np) ==
  /\ rpc = "b_solve"
  /\ (r = "throws") = (solver = "other")
  /\ np.sig \subseteq page.sig
  /\ r # "token" => np = page
  /\ page' = np
  /\ solved1' = (solved1 \/ (/\ attempt = 1
                             /\ r = "token"
                             /\ RecheckClear(np)
                             /\ np.sig = {}
                             /\ np.title = "ok"))
  /\ LET e == SolveThrown(r, RecheckClear(np))
     IN IF AutoSolveEscapes(e)
        THEN /\ err' = e
             /\ rpc' = "b_finally"
        ELSE ManualOrFail
  /\ UNCHANGED <<rcfg, attempt, fattempt, hasPage, rhist, opens, closes,
                 gets, fetchCalls, lateBrowserOp, thrown, outcome>>
  /\ UNCHANGED rcache
  /\ UNCHANGED mvars
  /\ UNCHANGED rghost
  /\ UNCHANGED xvars

\* One poll of a manual wait (after the early or the final check): 2 s pass,
\* the page is np by now; the loop ends when the challenge is gone and content
\* is there, or when the 120 s are over (expired).
B_ManualPoll(np, expired) ==
  /\ rpc \in {"b_manual1", "b_manual2"}
  /\ np.sig \subseteq page.sig
  /\ page' = np
  /\ rpc' = IF WaitExits(np) \/ expired
            THEN (IF rpc = "b_manual1" THEN "b_mfinal1" ELSE "b_mfinal2")
            ELSE rpc
  /\ UNCHANGED <<rcfg, attempt, fattempt, hasPage, err, rhist, opens,
                 closes, gets, fetchCalls, lateBrowserOp, solved1, thrown,
                 outcome>>
  /\ UNCHANGED rcache
  /\ UNCHANGED mvars
  /\ UNCHANGED rghost
  /\ UNCHANGED xvars

\* The check that ends a manual wait: finalCheck.stillHasCaptcha
B_ManualFinal ==
  /\ rpc \in {"b_mfinal1", "b_mfinal2"}
  /\ IF ManualStill(page)
     THEN /\ err' = "captchaTimeout"
          /\ rpc' = "b_finally"
     ELSE /\ rpc' = IF rpc = "b_mfinal1" THEN "b_settle" ELSE "b_extract"
          /\ UNCHANGED err
  /\ UNCHANGED <<rcfg, attempt, fattempt, hasPage, page, rhist, opens,
                 closes, gets, fetchCalls, lateBrowserOp, solved1, thrown,
                 outcome>>
  /\ UNCHANGED rcache
  /\ UNCHANGED mvars
  /\ UNCHANGED rghost
  /\ UNCHANGED xvars

\* Between the checks: extra wait, mouse move, scrolling, selector waits.
\* Client-side scripts may have inserted block markers by now (the page is np).
B_Settle(np) ==
  /\ rpc = "b_settle"
  /\ page.sig \subseteq np.sig
  /\ np.title = page.title /\ np.content = page.content
  /\ page' = np
  /\ solved1' = (solved1 /\ (attempt # 1 \/ np = page))
  /\ rpc' = "b_final"
  /\ humanised' = Humanise(humanised)
  /\ UNCHANGED <<delay, contentWait, closeRes>>
  /\ UNCHANGED <<rcfg, attempt, fattempt, hasPage, err, rhist, opens,
                 closes, gets, fetchCalls, lateBrowserOp, thrown, outcome>>
  /\ UNCHANGED rcache
  /\ UNCHANGED mvars
  /\ UNCHANGED xvars

\* The final check.
B_FinalCheck ==
  /\ rpc = "b_final"
  /\ IF FinalBlocked(page)
     THEN IF Interactive
          THEN /\ rpc' = "b_manual2"
               /\ UNCHANGED err
          ELSE /\ err' = "captchaBlocked"
               /\ rpc' = "b_finally"
     ELSE /\ rpc' = "b_extract"
          /\ UNCHANGED err
  /\ UNCHANGED <<rcfg, attempt, fattempt, hasPage, page, rhist, opens,
                 closes, gets, fetchCalls, lateBrowserOp, solved1, thrown,
                 outcome>>
  /\ UNCHANGED rcache
  /\ UNCHANGED mvars
  /\ UNCHANGED rghost
  /\ UNCHANGED xvars

\* page.content() is parsed by AlibabaScraper and the title validated.
B_Extract ==
  /\ rpc = "b_extract"
  /\ err' = IF TitleMissing(page) THEN "extract" ELSE "none"
  /\ rpc' = "b_finally"
  /\ UNCHANGED <<rcfg, attempt, fattempt, hasPage, page, rhist, opens,
                 closes, gets, fetchCalls, lateBrowserOp, solved1, thrown,
                 outcome>>
  /\ UNCHANGED rcache
  /\ UNCHANGED mvars
  /\ UNCHANGED rghost
  /\ UNCHANGED xvars

\* scrapeWithBrowser's catch and finally, then its caller: the product is
\* returned to the handler, or the retry loop's catch runs.  closeOk: whether
\* page.close() resolves (a rejection is caught and logged).
B_Finally(closeOk) ==
  /\ rpc = "b_finally"
  /\ closes' = IF FinallyCloses(hasPage, err) THEN closes + 1 ELSE closes
  /\ hasPage' = FALSE
  /\ page' = NoPage
  /\ err' = "none"
  /\ contentWait' = "none"
  /\ humanised' = "none"
  /\ closeRes' = IF ~FinallyCloses(hasPage, err) THEN "none"
                 ELSE IF closeOk THEN "ok" ELSE "failed"
  /\ UNCHANGED delay
  /\ LET e == AttemptError(FinallyCloses(hasPage, err), closeOk, err)
     IN IF e = "none"
        THEN /\ nB' = nB + 1
             /\ bAllBlocked' = FALSE
             /\ ScrapeSucceeded
             /\ UNCHANGED <<attempt, fattempt, fetchCalls, thrown, bLast>>
        ELSE /\ LoopCatch(e)
             /\ UNCHANGED <<outcome, cacheWrites>>
  /\ UNCHANGED <<rcfg, nF, fAllDenied, opens, gets, lateBrowserOp, solved1,
                 cacheEnabled, cacheHas, cached, cacheReads>>
  /\ UNCHANGED mvars
  /\ UNCHANGED xvars

\* ------------------------------------------------------------ fetch loop
\* One iteration up to the fetch call (after the backoff when attempt > 1).
F_Attempt ==
  /\ rpc = "f_attempt"
  /\ rpc' = "f_fetch"
  /\ delay' = FetchBackoff(fattempt)
  /\ closeRes' = "none"
  /\ UNCHANGED <<contentWait, humanised>>
  /\ UNCHANGED <<rcfg, attempt, fattempt, hasPage, err, page, rhist, opens,
                 closes, gets, fetchCalls, lateBrowserOp, solved1, thrown,
                 outcome>>
  /\ UNCHANGED rcache
  /\ UNCHANGED mvars
  /\ UNCHANGED xvars

\* The fetch settles with r and, when the response passes the checks, the
\* extractor finds title t.  Then the validation, the catch and the loop.
F_Response(r, t) ==
  /\ rpc = "f_fetch"
  /\ (r = "parseurl") = ~urlValid
  /\ r # "ok" => t = "unknown"
  /\ nF' = nF + 1
  /\ LET e == IF r # "ok" THEN r
              ELSE IF t = "unknown" THEN "extract" ELSE "none"
     IN /\ fAllDenied' = (fAllDenied /\ e = "denied")
        /\ IF e = "none"
           THEN /\ ScrapeSucceeded
                /\ UNCHANGED <<fattempt, thrown>>
           ELSE IF FetchNoRetry(e) \/ fattempt >= DefaultFetchRetries
           THEN /\ outcome' = "error"
                /\ thrown' = e
                /\ rpc' = "done"
                /\ UNCHANGED <<fattempt, cacheWrites>>
           ELSE /\ fattempt' = fattempt + 1
                /\ rpc' = "f_attempt"
                /\ UNCHANGED <<outcome, thrown, cacheWrites>>
  /\ UNCHANGED <<rcfg, attempt, hasPage, err, page, nB, bAllBlocked, bLast,
                 opens, closes, gets, fetchCalls, lateBrowserOp, solved1,
                 cacheEnabled, cacheHas, cached, cacheReads>>
  /\ UNCHANGED mvars
  /\ UNCHANGED rghost
  /\ UNCHANGED xvars

ReqStep ==
  \/ H_Start
  \/ B_Attempt
  \/ \E r \in {"ok", "notfound", "launchfail"} : B_GetBrowser(r)
  \/ \E ok \in BOOLEAN : B_NewPage(ok)
  \/ \E r \in {"ok", "navtimeout", "invalidurl"}, np \in PageStates :
       B_Navigate(r, np)
  \/ \E conn \in BOOLEAN : B_EarlyCheck(conn)
  \/ \E r \in {"token", "failed", "throws"}, np \in PageStates : B_Solve(r, np)
  \/ \E np \in PageStates, expired \in BOOLEAN : B_ManualPoll(np, expired)
  \/ B_ManualFinal
  \/ \E np \in PageStates : B_Settle(np)
  \/ B_FinalCheck
  \/ B_Extract
  \/ \E closeOk \in BOOLEAN : B_Finally(closeOk)
  \/ F_Attempt
  \/ \E r \in {"ok", "parseurl", "network", "fetchtimeout", "http404",
               "httpother", "empty", "denied"}, t \in {"ok", "unknown"} :
       F_Response(r, t)

\* ------------------------------------------------------------ cache keys
\* A URL string, by its parts: how it begins ("none": no protocol, "slashes":
\* "//host...", or its protocol), the names of its query parameters in order,
\* and whether "new URL(...)" accepts it once it has a protocol.  Host, path
\* and parameter values are the same in all the URLs compared.
MaxParams == 2
ParamNames == {"id", "utm_source", "spm"}
Queries == UNION {[1..n -> ParamNames] : n \in 0..MaxParams}
Urls == [scheme : {"none", "slashes", "https", "http"},
         query : Queries,
         valid : BOOLEAN]
NoUrl == [scheme |-> "-", query |-> <<>>, valid |-> FALSE]

\* ensureProtocol: a URL without protocol gets https.
ensureProtocol(u) ==
  IF u.scheme \in {"none", "slashes"} THEN [u EXCEPT !.scheme = "https"] ELSE u

\* normalizeUrl: paramsToRemove
paramsToRemoveUtmOnly ==
  {"utm_source", "utm_medium", "utm_campaign", "utm_term", "utm_content"}
paramsToRemove ==
  {"utm_source", "utm_medium", "utm_campaign", "utm_term", "utm_content",
   "ref", "source", "spm", "scm"}

\* normalizeUrl: parse, delete the parameters, serialise; a string that does
\* not parse is returned as it is, with its protocol.
normalizeUrl(u) ==
  IF u.valid
  THEN [ensureProtocol(u) EXCEPT
          !.query = SelectSeq(u.query, LAMBDA n : n \notin paramsToRemove)]
  ELSE ensureProtocol(u)

\* getCacheKey: "scraper:product:" and the base64 of the normalised URL
\* (base64 is one-to-one).
getCacheKey(u) == <<"scraper:product:", normalizeUrl(u)>>

\* setCachedProduct(u, ...) succeeds: the product is under u's key, and no
\* lookup has followed yet.
K_Set(u) ==
  /\ storedUrl = NoUrl
  /\ storedUrl' = u
  /\ lookedUrl' = NoUrl
  /\ hit' = FALSE
  /\ UNCHANGED rvars
  /\ UNCHANGED mvars
  /\ UNCHANGED sdvars
  /\ UNCHANGED cvars
  /\ UNCHANGED qvars

\* getCachedProduct(u): the key of u is looked up (one lookup is followed
\* before and one after the product is stored).
K_Get(u) ==
  /\ lookedUrl = NoUrl
  /\ lookedUrl' = u
  /\ hit' = (storedUrl # NoUrl /\ getCacheKey(u) = getCacheKey(storedUrl))
  /\ UNCHANGED storedUrl
  /\ UNCHANGED rvars
  /\ UNCHANGED mvars
  /\ UNCHANGED sdvars
  /\ UNCHANGED cvars
  /\ UNCHANGED qvars

KeyStep ==
  \/ \E u \in Urls : K_Set(u)
  \/ \E u \in Urls : K_Get(u)

KeysParked ==
  /\ storedUrl = NoUrl
  /\ lookedUrl = NoUrl
  /\ hit = FALSE

\* ------------------------------------------------------------ shutdown
\* Two modules register handlers for SIGTERM and for SIGINT: the browser
\* manager ("mgr": await cleanupBrowser()) and the server ("srv": await
\* cleanupBrowser(); await closeCache(); process.exit(0)).  The manager module
\* is imported by the server, so its handler is registered, and runs, first.
Handlers == {"mgr", "srv"}

\* The process is running and no signal has arrived.
ProcessUp ==
  /\ down = "up"
  /\ hpc = [h \in Handlers |-> "idle"]
  /\ htgt = 0

\* browser.close() calls the signal handlers have made on browser htgt.
SigCloseCalls ==
  IF htgt = 0 THEN 0 ELSE Cardinality({h \in Handlers : hpc[h] # "idle"})

\* SIGTERM or SIGINT arrives: both handlers run, one after the other, up to
\* their first await.  Each calls cleanupBrowser() -> closeBrowser(), which
\* calls this.browser.close() if this.browser is set (it is cleared only in
\* the finally, after the await) and returns at once otherwise.
Signal ==
  /\ down = "up"
  /\ down' = "stopping"
  /\ htgt' = browser
  /\ hpc' = [h \in Handlers |-> IF browser # 0 THEN "closing" ELSE "done"]
  /\ UNCHANGED mvars
  /\ UNCHANGED rvars
  /\ UNCHANGED keyvars
  /\ UNCHANGED cvars
  /\ UNCHANGED qvars

\* browser.close() settles for handler h; closeBrowser's finally clears
\* this.browser, whichever browser is cached by now.
SigCloseDone(h) ==
  /\ down = "stopping"
  /\ hpc[h] = "closing"
  /\ hpc' = [hpc EXCEPT ![h] = "done"]
  /\ bconn' = [bconn EXCEPT ![htgt] = "closed"]
  /\ browser' = 0
  /\ UNCHANGED <<isLaunching, launchPromise, headless, execPath, lst, lmode,
                 pc, op, ovr, tgt, res, calls, early, switching, nClose,
                 nLaunch>>
  /\ UNCHANGED <<down, htgt>>
  /\ UNCHANGED rvars
  /\ UNCHANGED keyvars
  /\ UNCHANGED cvars
  /\ UNCHANGED qvars

\* The server's handler, its cleanupBrowser() and closeCache() done, calls
\* process.exit(0).
ProcessExit ==
  /\ down = "stopping"
  /\ hpc["srv"] = "done"
  /\ down' = "exited"
  /\ UNCHANGED <<hpc, htgt>>
  /\ UNCHANGED mvars
  /\ UNCHANGED rvars
  /\ UNCHANGED keyvars
  /\ UNCHANGED cvars
  /\ UNCHANGED qvars

\* The service until its process exits: requests keep arriving (the server is
\* never closed) and their getBrowser() calls interleave with the handlers.
ShutdownStep ==
  \/ \E c \in Callers : down # "exited" /\ GetBrowser(c, "none")
  \/ \E l \in Launches : down # "exited" /\ LaunchAccess(l)
  \/ \E l \in Launches : down # "exited" /\ LaunchOk(l)
  \/ \E l \in Launches, kind \in {"notfound", "other"} :
       down # "exited" /\ LaunchFail(l, kind)
  \/ \E c \in Callers : down # "exited" /\ JoinReturn(c)
  \/ \E b \in Launches : down # "exited" /\ Disconnected(b)
  \/ \E c \in Callers : down # "exited" /\ Finish(c)
  \/ Signal
  \/ \E h \in Handlers : SigCloseDone(h)
  \/ ProcessExit

\* ------------------------------------------------------------ captcha solver
\* Time is counted in units; a polling interval is one or two of them, a
\* reply of the service takes up to MaxLatency.
MaxSolverTimeout == 5
MaxLatency == 1

SolverIdle ==
  /\ ctimeout = 0
  /\ cinterval = 0
  /\ elapsed = 0
  /\ sres = "none"
  /\ submitted = "none"
  /\ polls = 0
  /\ lastReply = "none"
  /\ headAt = 0
  /\ pollAt = 0

SolverParked ==
  /\ spc = "parked"
  /\ SolverIdle

\* solveWith2Captcha has sent the submission (the POST to in.php).  The
\* constructor replaces a timeout or an interval of 0 by its default, so both
\* are positive.
InitSolver ==
  /\ spc = "submit"
  /\ ctimeout \in 1..MaxSolverTimeout
  /\ cinterval \in 1..2
  /\ elapsed = 0
  /\ sres = "none"
  /\ submitted = "none"
  /\ polls = 0
  /\ lastReply = "none"
  /\ headAt = 0
  /\ pollAt = 0

\* "while (Date.now() - startTime < this.config.timeout)"
LoopAdmitsInclusive(e, t) == e <= t
LoopAdmits(e, t) == e < t

\* The loop condition evaluated with e elapsed: another round (which begins
\* with the wait), or the timeout result.
LoopHead(e) ==
  IF LoopAdmits(e, ctimeout)
  THEN /\ spc' = "sleep"
       /\ headAt' = e
       /\ UNCHANGED sres
  ELSE /\ spc' = "done"
       /\ sres' = "failure"
       /\ UNCHANGED headAt

\* The submission settles with r: status 1 ("ok"), another status
\* ("rejected"), or the request or its JSON parsing throws (caught by the
\* method's catch).  On "ok" startTime is taken and the loop entered.
S_Submit(r) ==
  /\ spc = "submit"
  /\ submitted' = r
  /\ elapsed' = 0
  /\ IF r = "ok"
     THEN LoopHead(0)
     ELSE /\ spc' = "done"
          /\ sres' = "failure"
          /\ UNCHANGED headAt
  /\ UNCHANGED <<ctimeout, cinterval, polls, lastReply, pollAt>>
  /\ UNCHANGED <<mvars, rvars, keyvars, sdvars, qvars>>

\* The wait of one polling interval is over; the poll (GET res.php) is sent.
S_Wake ==
  /\ spc = "sleep"
  /\ elapsed' = elapsed + cinterval
  /\ pollAt' = elapsed + cinterval
  /\ polls' = polls + 1
  /\ spc' = "poll"
  /\ UNCHANGED <<ctimeout, cinterval, sres, submitted, lastReply, headAt>>
  /\ UNCHANGED <<mvars, rvars, keyvars, sdvars, qvars>>

\* The poll settles after d with r: status 1 ("token"), CAPCHA_NOT_READY
\* ("notready"), another reply ("error"), or the request throws.
S_Poll(r, d) ==
  /\ spc = "poll"
  /\ elapsed' = elapsed + d
  /\ lastReply' = r
  /\ CASE r = "token" ->
            /\ spc' = "done"
            /\ sres' = "success"
            /\ UNCHANGED headAt
       [] r = "notready" -> LoopHead(elapsed + d)
       [] OTHER ->
            /\ spc' = "done"
            /\ sres' = "failure"
            /\ UNCHANGED headAt
  /\ UNCHANGED <<ctimeout, cinterval, submitted, polls, pollAt>>
  /\ UNCHANGED <<mvars, rvars, keyvars, sdvars, qvars>>

SolverStep ==
  \/ \E r \in {"ok", "rejected", "throws"} : S_Submit(r)
  \/ S_Wake
  \/ \E r \in {"token", "notready", "error", "throws"}, d \in 0..MaxLatency :
       S_Poll(r, d)

\* ------------------------------------------------------------ checkout
MaxCheckoutRetries == 2

CheckoutIdle ==
  /\ qattempt = 0
  /\ qerr = "none"
  /\ qBrowserOpen = FALSE
  /\ qPageOpen = FALSE
  /\ qoutcome = "none"
  /\ qLaunched = 0
  /\ qBrowserCloses = 0
  /\ qPages = 0
  /\ qPageCloses = 0

CheckoutParked ==
  /\ qpc = "parked"
  /\ qretries = 0
  /\ CheckoutIdle

\* scrapeCheckoutFromUrlWithBrowser(url, retries) is called.
InitCheckout ==
  /\ qpc = "call"
  /\ qretries \in 0..MaxCheckoutRetries
  /\ CheckoutIdle

\* scrapeCheckoutWithBrowser's finally: "if (browser) { await browser.close() }"
\* with the browser launched (b) and the attempt's error e.
CheckoutClosesBrowserOnSuccessOnly(b, e) == b /\ e = "none"
CheckoutClosesBrowser(b, e) == b

\* One attempt is over with error e ("none": it returns its checkout): the
\* retry loop's return, its catch, and the final throw.
Q_AttemptEnds(e) ==
  /\ qerr' = "none"
  /\ IF e = "none"
     THEN /\ qpc' = "done"
          /\ qoutcome' = "checkout"
          /\ UNCHANGED qattempt
     ELSE IF qattempt = qretries
     THEN /\ qpc' = "done"
          /\ qoutcome' = "error"
          /\ UNCHANGED qattempt
     ELSE /\ qpc' = "attempt"
          /\ qattempt' = qattempt + 1
          /\ UNCHANGED qoutcome

\* The finally after its page part, with error e: the browser is closed next.
Q_AfterPage(e) ==
  IF CheckoutClosesBrowser(TRUE, e)
  THEN /\ qpc' = "browserclose"
       /\ qerr' = e
       /\ UNCHANGED <<qattempt, qoutcome>>
  ELSE Q_AttemptEnds(e)

\* The loop is entered ("attempt <= retries"), or not at all.
Q_Call ==
  /\ qpc = "call"
  /\ IF qretries >= 1
     THEN /\ qattempt' = 1
          /\ qpc' = "attempt"
          /\ UNCHANGED qoutcome
     ELSE /\ qpc' = "done"
          /\ qoutcome' = "error"
          /\ UNCHANGED qattempt
  /\ UNCHANGED <<qretries, qerr, qBrowserOpen, qPageOpen, qLaunched,
                 qBrowserCloses, qPages, qPageCloses>>
  /\ UNCHANGED <<mvars, rvars, keyvars, sdvars, cvars>>

\* One loop iteration up to "checkoutPuppeteer.launch(...)" (after the delay
\* when attempt > 1).
Q_Attempt ==
  /\ qpc = "attempt"
  /\ qpc' = "launch"
  /\ UNCHANGED <<qretries, qattempt, qerr, qBrowserOpen, qPageOpen, qoutcome,
                 qLaunched, qBrowserCloses, qPages, qPageCloses>>
  /\ UNCHANGED <<mvars, rvars, keyvars, sdvars, cvars>>

\* The launch settles; a rejection is rethrown before the try that owns the
\* finally, straight into the retry loop's catch.
Q_Launch(ok) ==
  /\ qpc = "launch"
  /\ IF ok
     THEN /\ qBrowserOpen' = TRUE
          /\ qLaunched' = qLaunched + 1
          /\ qpc' = "newpage"
          /\ UNCHANGED <<qattempt, qerr, qoutcome>>
     ELSE /\ Q_AttemptEnds("launch")
          /\ UNCHANGED <<qBrowserOpen, qLaunched>>
  /\ UNCHANGED <<qretries, qPageOpen, qBrowserCloses, qPages, qPageCloses>>
  /\ UNCHANGED <<mvars, rvars, keyvars, sdvars, cvars>>

\* browser.newPage() settles; without a page the finally goes to the browser.
Q_NewPage(ok) ==
  /\ qpc = "newpage"
  /\ IF ok
     THEN /\ qPageOpen' = TRUE
          /\ qPages' = qPages + 1
          /\ qpc' = "work"
          /\ UNCHANGED <<qattempt, qerr, qoutcome>>
     ELSE /\ Q_AfterPage("newpage")
          /\ UNCHANGED <<qPageOpen, qPages>>
  /\ UNCHANGED <<qretries, qBrowserOpen, qLaunched, qBrowserCloses,
                 qPageCloses>>
  /\ UNCHANGED <<mvars, rvars, keyvars, sdvars, cvars>>

\* Navigation, the waits and the extraction end with r; the finally begins
\* with the page.
Q_Work(r) ==
  /\ qpc = "work"
  /\ qerr' = IF r = "ok" THEN "none" ELSE r
  /\ qpc' = "pageclose"
  /\ UNCHANGED <<qretries, qattempt, qBrowserOpen, qPageOpen, qoutcome,
                 qLaunched, qBrowserCloses, qPages, qPageCloses>>
  /\ UNCHANGED <<mvars, rvars, keyvars, sdvars, cvars>>

\* page.close() settles (a rejection is caught and logged).
Q_PageClose(closeOk) ==
  /\ qpc = "pageclose"
  /\ qPageCloses' = qPageCloses + 1
  /\ qPageOpen' = ~closeOk
  /\ Q_AfterPage(qerr)
  /\ UNCHANGED <<qretries, qBrowserOpen, qLaunched, qBrowserCloses, qPages>>
  /\ UNCHANGED <<mvars, rvars, keyvars, sdvars, cvars>>

\* browser.close() settles (a rejection is caught and logged: the browser was
\* gone already); the attempt returns or throws.
Q_BrowserClose(closeOk) ==
  /\ qpc = "browserclose"
  /\ qBrowserCloses' = qBrowserCloses + 1
  /\ qBrowserOpen' = FALSE
  /\ qPageOpen' = FALSE
  /\ Q_AttemptEnds(qerr)
  /\ UNCHANGED <<qretries, qLaunched, qPages, qPageCloses>>
  /\ UNCHANGED <<mvars, rvars, keyvars, sdvars, cvars>>

CheckoutStep ==
  \/ Q_Call
  \/ Q_Attempt
  \/ \E ok \in BOOLEAN : Q_Launch(ok)
  \/ \E ok \in BOOLEAN : Q_NewPage(ok)
  \/ \E r \in {"ok", "navigation", "extract"} : Q_Work(r)
  \/ \E closeOk \in BOOLEAN : Q_PageClose(closeOk)
  \/ \E closeOk \in BOOLEAN : Q_BrowserClose(closeOk)

XParked ==
  /\ KeysParked
  /\ ProcessUp
  /\ SolverParked
  /\ CheckoutParked

\* ------------------------------------------------------------ specifications
MgrParked ==
  /\ browser = 0
  /\ isLaunching = FALSE
  /\ launchPromise = 0
  /\ headless = FALSE
  /\ execPath = "unset"
  /\ lst = [l \in Launches |-> "none"]
  /\ lmode = [l \in Launches |-> FALSE]
  /\ bconn = [l \in Launches |-> "none"]
  /\ pc = [c \in Callers |-> "idle"]
  /\ op = [c \in Callers |-> "none"]
  /\ ovr = [c \in Callers |-> "none"]
  /\ tgt = [c \in Callers |-> 0]
  /\ res = [c \in Callers |-> 0]
  /\ calls = 0
  /\ early = [c \in Callers |-> FALSE]
  /\ switching = [c \in Callers |-> FALSE]
  /\ nClose = [c \in Callers |-> 0]
  /\ nLaunch = [c \in Callers |-> 0]

ReqParked ==
  /\ useBrowser = TRUE
  /\ retries = 0
  /\ urlValid = TRUE
  /\ solver = "none"
  /\ nodeEnv = "production"
  /\ ppHeadless = "true"
  /\ rpc = "parked"
  /\ attempt = 0
  /\ fattempt = 0
  /\ hasPage = FALSE
  /\ err = "none"
  /\ page = NoPage
  /\ nB = 0
  /\ nF = 0
  /\ bAllBlocked = TRUE
  /\ fAllDenied = TRUE
  /\ bLast = "none"
  /\ opens = 0
  /\ closes = 0
  /\ gets = 0
  /\ fetchCalls = 0
  /\ lateBrowserOp = FALSE
  /\ solved1 = FALSE
  /\ thrown = "none"
  /\ outcome = "none"
  /\ forceRefresh = FALSE
  /\ cacheEnabled = FALSE
  /\ cacheHas = "none"
  /\ cached = FALSE
  /\ cacheReads = 0
  /\ cacheWrites = 0
  /\ RGhost0

vars == <<mvars, rvars, xvars>>

Init == InitMgr /\ ReqParked /\ XParked
Next == MgrStep
\* The browser manager under interleaved callers.
Spec == Init /\ [][Next]_vars

InitSeq == InitMgr /\ ReqParked /\ XParked
NextSeq == SeqStep
\* The browser manager called by one caller at a time.
SpecSeq == InitSeq /\ [][NextSeq]_vars

InitR == InitReq /\ MgrParked /\ XParked
NextR == ReqStep
\* One POST /scrape request.
SpecReq == InitR /\ [][NextR]_vars

\* redisClient "connect" / "ready" handlers: they log, and leave cacheEnabled
\* (en) as it is.
OnRedisReadyEnables(en) == TRUE
OnRedisReady(en) == en

\* redisClient "connect" / "ready" event (ioredis reconnects by itself).
RedisUp ==
  /\ rpc # "done"
  /\ cacheEnabled' = OnRedisReady(cacheEnabled)
  /\ UNCHANGED <<rcfg, rpc, attempt, fattempt, hasPage, err, page, rhist,
                 opens, closes, gets, fetchCalls, lateBrowserOp, solved1,
                 thrown, outcome, cacheHas, cached, cacheReads, cacheWrites>>
  /\ UNCHANGED mvars
  /\ UNCHANGED rghost
  /\ UNCHANGED xvars

\* A request served with Redis configured: any cache content, the cache
\* available or already lost at the start, and lost at any later moment.
InitCache ==
  /\ useBrowser \in BOOLEAN
  /\ retries = 1
  /\ urlValid = TRUE
  /\ solver \in {"none", "2captcha"}
  /\ nodeEnv \in {"production", "development"}
  /\ ppHeadless = "false"
  /\ forceRefresh \in BOOLEAN
  /\ cacheEnabled \in BOOLEAN
  /\ cacheHas \in {"none", "product", "garbage"}
  /\ rpc = "start"
  /\ attempt = 0
  /\ fattempt = 0
  /\ hasPage = FALSE
  /\ err = "none"
  /\ page = NoPage
  /\ nB = 0
  /\ nF = 0
  /\ bAllBlocked = TRUE
  /\ fAllDenied = TRUE
  /\ bLast = "none"
  /\ opens = 0
  /\ closes = 0
  /\ gets = 0
  /\ fetchCalls = 0
  /\ lateBrowserOp = FALSE
  /\ solved1 = FALSE
  /\ thrown = "none"
  /\ outcome = "none"
  /\ cached = FALSE
  /\ cacheReads = 0
  /\ cacheWrites = 0
  /\ RGhost0

CacheStep ==
  \/ \E r \in {"value", "error"} : C_Read(r)
  \/ \E ok \in BOOLEAN : C_Write(ok)
  \/ RedisDown
  \/ RedisUp

InitC == InitCache /\ MgrParked /\ XParked
NextC == ReqStep \/ CacheStep
\* One POST /scrape request with the product cache.
SpecCache == InitC /\ [][NextC]_vars

\* A request whose browser attempt may meet a challenge, with or without the
\* 2captcha solver, in an interactive or a non-interactive context.
InitLive ==
  /\ useBrowser \in BOOLEAN
  /\ retries \in 1..2
  /\ urlValid = TRUE
  /\ solver \in {"none", "2captcha"}
  /\ nodeEnv \in {"production", "development"}
  /\ ppHeadless = "false"
  /\ forceRefresh = FALSE
  /\ cacheEnabled = FALSE
  /\ cacheHas = "none"
  /\ rpc = "start"
  /\ attempt = 0
  /\ fattempt = 0
  /\ hasPage = FALSE
  /\ err = "none"
  /\ page = NoPage
  /\ nB = 0
  /\ nF = 0
  /\ bAllBlocked = TRUE
  /\ fAllDenied = TRUE
  /\ bLast = "none"
  /\ opens = 0
  /\ closes = 0
  /\ gets = 0
  /\ fetchCalls = 0
  /\ lateBrowserOp = FALSE
  /\ solved1 = FALSE
  /\ thrown = "none"
  /\ outcome = "none"
  /\ cached = FALSE
  /\ cacheReads = 0
  /\ cacheWrites = 0
  /\ RGhost0

\* solveWith2Captcha: "await fetch(...)" for the submission and for each poll
\* carries no signal and no timeout; the loop's own timeout is read only
\* between two polls.
SolverRequestsTimed == FALSE

\* Which steps are bound to happen.  A step of the code's own (a timer, a
\* synchronous stretch) happens; a wait on an outside party ends, by an answer
\* or by its timeout, when the code gives it one: page.goto (timeout:
\* finalConfig.timeout), waitForFunction (timeout: 15000), the fetch of
\* scrapeFromUrl (AbortSignal.timeout(30000)), and the manual wait, whose
\* poll past the 120 s comes as the clock advances.  The calls into Puppeteer
\* end by its protocol timeout.  The solver's requests end only if answered.
LiveFairness ==
  /\ WF_vars(H_Start)
  /\ WF_vars(B_Attempt)
  /\ WF_vars(\E r \in {"ok", "notfound", "launchfail"} : B_GetBrowser(r))
  /\ WF_vars(\E ok \in BOOLEAN : B_NewPage(ok))
  /\ WF_vars(\E r \in {"ok", "navtimeout", "invalidurl"}, np \in PageStates :
               B_Navigate(r, np))
  /\ WF_vars(\E conn \in BOOLEAN : B_EarlyCheck(conn))
  /\ (SolverRequestsTimed =>
        WF_vars(\E r \in {"token", "failed", "throws"}, np \in PageStates :
                  B_Solve(r, np)))
  /\ WF_vars(\E np \in PageStates : B_ManualPoll(np, TRUE))
  /\ WF_vars(B_ManualFinal)
  /\ WF_vars(\E np \in PageStates : B_Settle(np))
  /\ WF_vars(B_FinalCheck)
  /\ WF_vars(B_Extract)
  /\ WF_vars(\E closeOk \in BOOLEAN : B_Finally(closeOk))
  /\ WF_vars(F_Attempt)
  /\ WF_vars(\E r \in {"ok", "parseurl", "network", "fetchtimeout", "http404",
                        "httpother", "empty", "denied"},
                 t \in {"ok", "unknown"} : F_Response(r, t))

InitL == InitLive /\ MgrParked /\ XParked
NextL == ReqStep
\* One POST /scrape request, with the steps that are bound to happen.
SpecLive == InitL /\ [][NextL]_vars /\ LiveFairness

InitP == InitMgr /\ ReqParked /\ XParked
NextP == PageStep
\* Concurrent scrapeWithBrowser executions on the shared browser.
SpecPages == InitP /\ [][NextP]_vars

InitK == MgrParked /\ ReqParked /\ XParked
NextK == KeyStep
\* The product cache's keys: one product stored, a lookup before and after.
SpecKey == InitK /\ [][NextK]_vars

InitS == InitMgr /\ ReqParked /\ XParked
NextS == ShutdownStep
\* The browser manager and the process's signal handlers, until the exit.
SpecShutdown == InitS /\ [][NextS]_vars

InitV ==
  /\ MgrParked /\ ReqParked
  /\ KeysParked /\ ProcessUp /\ CheckoutParked
  /\ InitSolver
NextV == SolverStep
\* One call of solveWith2Captcha, from its submission to its result.
SpecSolver == InitV /\ [][NextV]_vars

InitQ ==
  /\ InitMgr /\ ReqParked
  /\ KeysParked /\ ProcessUp /\ SolverParked
  /\ InitCheckout
NextQ == CheckoutStep
\* One call of scrapeCheckoutFromUrlWithBrowser beside an idle manager.
SpecCheckout == InitQ /\ [][NextQ]_vars

\* ===================================================================
\* Properties
\* ===================================================================

\* C1: getBrowser calls that arrive before the first launch has completed all
\* await the same single launch (launch 1): one of them started it, none of
\* them started another, and each of them receives that launch's browser (or
\* that launch's rejection).
C1_FirstCallersShareOneLaunch ==
  /\ \A c \in Callers : early[c] =>
       /\ nClose[c] = 0
       /\ nLaunch[c] <= 1
       /\ pc[c] \in {"launching", "joined"} => tgt[c] = 1
       /\ pc[c] = "launching" => nLaunch[c] = 1
       /\ pc[c] = "joined" => nLaunch[c] = 0
       /\ pc[c] = "returned" => res[c] = (IF lst[1] = "ok" THEN 1 ELSE -1)
  /\ \A c, d \in Callers :
       early[c] /\ early[d] /\ nLaunch[c] = 1 /\ nLaunch[d] = 1 => c = d

\* Two concurrent first-time callers have both received browser 1.
C1_Witness ==
  \E c, d \in Callers :
    /\ c # d
    /\ early[c] /\ early[d]
    /\ pc[c] = "returned" /\ pc[d] = "returned"
    /\ res[c] = 1 /\ res[d] = 1
    /\ nLaunch[c] + nLaunch[d] = 1

\* C2: at most one browser launched by the manager is alive and at most one
\* launch is in flight, in every reachable state.
C2_AtMostOneBrowserOneLaunch ==
  /\ Cardinality(Alive) <= 1
  /\ Cardinality(InFlight) <= 1

\* C3: outside a browser attempt every page that was opened has been closed:
\* page closes equal page opens; inside an attempt exactly the attempt's own
\* page is open.
C3_PagesClosed ==
  /\ closes <= opens
  /\ opens - closes = (IF hasPage THEN 1 ELSE 0)
  /\ rpc \in {"start", "b_attempt", "b_get", "b_newpage", "f_attempt",
              "f_fetch", "done"} => opens = closes

\* A request is over whose browser attempts opened two pages or more, the
\* last of them failing in the extractor, and every page was closed.
C3_Witness ==
  /\ rpc = "done"
  /\ opens >= 2
  /\ opens = closes
  /\ bLast = "extract"

\* C4: with retries = 3, no solver, a non-interactive context and every
\* browser attempt blocked there are 3 browser attempts, then 1 fetch attempt,
\* then an error; when the fetch is blocked too the error is the anti-bot kind
\* and retries + 1 attempts were made in all.
C4_ThreeBrowserOneFetch ==
  (/\ rpc = "done"
   /\ useBrowser /\ retries = 3 /\ solver = "none" /\ ~Interactive
   /\ nB = 3 /\ bAllBlocked) =>
     /\ nF = 1
     /\ outcome = "error"
     /\ fAllDenied => UserKind(thrown) = "antibot" /\ nB + nF = retries + 1

\* C5: with useBrowser the fetch path is entered at most once, only after the
\* browser path has failed, and no browser operation follows its start.
C5_OneFallbackNoReentry ==
  useBrowser =>
    /\ fetchCalls <= 1
    /\ fetchCalls = 1 => thrown # "none"
    /\ fetchCalls = 0 => nF = 0 /\ rpc \notin {"f_attempt", "f_fetch"}
    /\ ~lateBrowserOp

\* The fallback ran to its end after the browser path had used its budget.
C5_Witness ==
  /\ useBrowser
  /\ rpc = "done"
  /\ fetchCalls = 1
  /\ nB >= 2
  /\ nF >= 2
  /\ gets = nB

\* C6: when attempt 1 is blocked and the automatic solving succeeds, the
\* product is returned from attempt 1, with no second browser attempt and no
\* fetch fallback, in an interactive and in a non-interactive context.
C6_AutoSolvedReturnsProduct ==
  rpc = "done" /\ solved1 =>
    /\ outcome = "product"
    /\ nB = 1
    /\ fetchCalls = 0

C8_InvalidUrlShortCircuits ==
  /\ fetchCalls >= 1 /\ bLast = "invalidurl" => nB = 1
  /\ rpc = "done" /\ thrown = "parseurl" => nF = 1

\* C9: with calls made one at a time, a getBrowser call whose override differs
\* from the connected browser's mode closes once and launches once, the
\* browser it returns runs in the override's mode, and the manager's mode and
\* cached browser agree afterwards, so that the next call returns a browser of
\* the new mode as well.
C9_SwitchOnceNewMode ==
  /\ \A c \in Callers : op[c] = "getBrowser" /\ pc[c] = "returned" =>
       /\ switching[c] => nClose[c] = 1 /\ nLaunch[c] = 1
       /\ ~switching[c] => nClose[c] = 0
       /\ res[c] > 0 =>
            /\ lmode[res[c]] = headless
            /\ ovr[c] # "none" => lmode[res[c]] = IsHeadless(ovr[c])
  /\ browser # 0 => lmode[browser] = headless

\* A mode-switching call has returned its relaunched browser.
C9_Witness ==
  \E c \in Callers :
    /\ op[c] = "getBrowser"
    /\ pc[c] = "returned"
    /\ switching[c]
    /\ res[c] > 0
    /\ bconn[res[c]] = "connected"
    /\ lmode[res[c]] = IsHeadless(ovr[c])

\* C10: every browser returned by getBrowser with an explicit override was
\* launched in the override's mode, also when the call joined a launch in
\* flight.
C10_ReturnedInOverrideMode ==
  \A c \in Callers :
    (/\ op[c] = "getBrowser"
     /\ pc[c] = "returned"
     /\ ovr[c] # "none"
     /\ res[c] > 0) => lmode[res[c]] = IsHeadless(ovr[c])

\* C11: the cached handle is never a disconnected browser; with calls made one
\* at a time, a getBrowser call that finds no cached handle (as after a
\* 'disconnected' event) starts exactly one launch, and the handle that launch
\* gives it is a new, connected browser.
C11_RelaunchAfterDisconnect ==
  [][/\ browser' # 0 => bconn'[browser'] = "connected"
     /\ \A c \in Callers, o \in Overrides :
          GetBrowser(c, o) /\ browser = 0 =>
            /\ pc'[c] = "launching"
            /\ nLaunch'[c] = 1
            /\ lst[tgt'[c]] = "none"
     /\ \A c \in Callers :
          (/\ op[c] = "getBrowser"
           /\ pc[c] = "launching"
           /\ pc'[c] = "returned"
           /\ res'[c] > 0) =>
             /\ res'[c] = tgt[c]
             /\ bconn[res'[c]] = "none"
             /\ bconn'[res'[c]] = "connected"
             /\ browser' = res'[c]
             /\ nLaunch'[c] = 1]_vars

\* A browser has disconnected, and a later getBrowser call has returned
\* another, connected browser after one launch of its own and no close.
C11_Witness ==
  \E c \in Callers, b \in Launches :
    /\ bconn[b] = "gone"
    /\ op[c] = "getBrowser"
    /\ pc[c] = "returned"
    /\ res[c] > b
    /\ bconn[res[c]] = "connected"
    /\ browser = res[c]
    /\ nLaunch[c] = 1
    /\ nClose[c] = 0

\* C12 (as the code has it): a launch failure reaches the caller that started
\* the launch and every caller that joined it, and a call never starts more
\* than one launchBrowser; but launchBrowser itself calls puppeteer.launch a
\* second time, without the executable path, when the first call failed
\* because the browser was not found.  Any other failure, and a failure of
\* the second call, ends the launch.
C12_LaunchFailureSurfaces ==
  [][/\ \A l \in Launches :
          (lst'[l] # lst[l] /\ LaunchFail(l, "other")) =>
            /\ lst'[l] = "failed"
            /\ ~isLaunching'
            /\ launchPromise' = 0
     /\ \A l \in Launches :
          (lst[l] = "respawn" /\ lst'[l] # lst[l] /\ LaunchFail(l, "notfound"))
            => lst'[l] = "failed"
     /\ \A c \in Callers :
          (/\ pc[c] \in {"launching", "joined"}
           /\ pc'[c] = "returned"
           /\ lst'[tgt[c]] = "failed"
           /\ \A d \in Callers : ~Finish(d) /\ ~ClosePage(d)) => res'[c] = -1
     /\ \A c \in Callers :
          (/\ pc[c] = "joined"
           /\ lst[tgt[c]] = "failed") => ENABLED JoinReturn(c)
     /\ \A c \in Callers : nLaunch'[c] <= 1]_vars

\* One launch has failed, and both the caller that started it and a caller
\* that joined it have received the failure.
C12_Witness ==
  \E c, d \in Callers :
    /\ c # d
    /\ op[c] = "getBrowser" /\ op[d] = "getBrowser"
    /\ pc[c] = "returned" /\ pc[d] = "returned"
    /\ res[c] = -1 /\ res[d] = -1
    /\ nLaunch[c] = 1 /\ nLaunch[d] = 0
    /\ Cardinality({l \in Launches : lst[l] = "failed"}) = 1

\* C12 as stated: the manager never retries inside itself, so no launch ever
\* makes a second puppeteer.launch call.
C12_NoRetryInside ==
  \A l \in Launches : lst[l] # "respawn"

\* C13: unless forceRefresh, an available cache is read before any scraping;
\* a request answered from the cache (cached: true) made no getBrowser call,
\* opened no page and issued no fetch; with forceRefresh the cache is never
\* read and the request does scrape.
C13_CacheBeforeScrape ==
  /\ rpc = "c_read" =>
       /\ ~forceRefresh
       /\ gets = 0 /\ opens = 0 /\ fetchCalls = 0 /\ nB = 0 /\ nF = 0
  /\ cached =>
       /\ rpc = "done" /\ outcome = "product"
       /\ ~forceRefresh
       /\ cacheReads = 1
       /\ gets = 0 /\ opens = 0 /\ fetchCalls = 0 /\ nB = 0 /\ nF = 0
  /\ ~forceRefresh /\ cacheEnabled /\ rpc # "start" => cacheReads = 1
  /\ forceRefresh => cacheReads = 0 /\ ~cached
  /\ forceRefresh /\ rpc = "done" => gets + fetchCalls >= 1

\* A request has been answered from the cache.
C13_Witness ==
  /\ rpc = "done"
  /\ cached
  /\ outcome = "product"
  /\ cacheHas = "product"
  /\ gets = 0 /\ fetchCalls = 0

\* C14: a successful scrape, by the browser path or by the fetch path, is
\* followed by one setCachedProduct call before the response whenever the
\* cache is available; a request whose scrape fails makes no cache write.
C14_WriteOnSuccess ==
  /\ cacheWrites <= 1
  /\ rpc = "c_write" => cacheWrites = 1 /\ outcome = "none" /\ nB + nF >= 1
  /\ rpc = "done" /\ outcome = "product" /\ ~cached /\ cacheEnabled =>
       cacheWrites = 1
  /\ outcome = "error" => cacheWrites = 0
  /\ cacheWrites = 1 => nB + nF >= 1 /\ outcome # "error"

\* A product scraped by the fetch path, after the browser path failed, has
\* been stored and returned.
C14_Witness ==
  /\ rpc = "done"
  /\ outcome = "product"
  /\ ~cached
  /\ useBrowser
  /\ nB >= 1 /\ nF >= 1
  /\ cacheWrites = 1
  /\ cacheHas = "product"

\* C15: no failure of a cache read or of a cache write makes the request
\* fail: a failed read is a miss and the scrape follows, a failed write still
\* returns the product; a request fails only with an error of its scrape.
C15_CacheFailuresContained ==
  /\ thrown # "cache"
  /\ rpc = "done" /\ cacheWrites = 1 => outcome = "product"
  /\ outcome = "error" => rpc = "done" /\ nF >= 1 /\ ~cached
  /\ rpc = "done" => outcome \in {"product", "error"}

\* The cached value could not be parsed, the product was scraped, the write
\* failed, and the product was returned all the same.
C15_Witness ==
  /\ rpc = "done"
  /\ outcome = "product"
  /\ ~cached
  /\ cacheReads = 1
  /\ cacheWrites = 1
  /\ cacheHas = "garbage"

\* ---------------------------------------------------------------- C16
\* C16, as the code has it: a poll of a manual wait that finds neither
\* "unusual traffic" nor "verify" on the page and a body text longer than 200
\* characters ends the wait at that poll, whether or not the 120 s are over;
\* any other poll before the deadline leaves the wait running.
C16_ExitsOnClearAndContent ==
  [][(rpc = "b_manual1" \/ rpc = "b_manual2") =>
       (\A expired \in BOOLEAN :
          B_ManualPoll(page', expired) =>
            /\ (~ManualStill(page') /\ page'.content) =>
                  (rpc' \in {"b_mfinal1", "b_mfinal2"})
            /\ (~expired /\ ~(~ManualStill(page') /\ page'.content)) =>
                  (rpc' = rpc))]_vars

\* A manual wait has ended on a page that shows no challenge and has content,
\* and the scrape goes on.
C16_Witness ==
  /\ rpc \in {"b_mfinal1", "b_mfinal2"}
  /\ ~ManualStill(page)
  /\ page.content
  /\ Interactive

\* C16 as stated: a poll before the deadline that finds the verdict cleared
\* ends the wait.  Violated: a cleared page whose body text has 200 characters
\* or fewer keeps the wait polling.
C16_ExitsWhenVerdictClears ==
  [][\A np \in PageStates :
       (B_ManualPoll(np, FALSE) /\ ~ManualStill(np)) => rpc' # rpc]_vars

\* ---------------------------------------------------------------- C17
\* C17: whatever the automatic solving ends with (a result without token, the
\* solver's "not yet implemented", a token that leaves the page blocked), no
\* error of it leaves the step: the attempt goes on to the manual wait when
\* the context is interactive and ends as blocked otherwise, and no solver
\* error is ever the attempt's or the request's error.
C17_AutoSolveContained ==
  [][/\ (rpc = "b_solve" /\ rpc' # rpc) =>
          \/ (Interactive /\ rpc' = "b_manual1" /\ err' = err)
          \/ (~Interactive /\ rpc' = "b_finally" /\ err' = "captchaBlocked")
     /\ err' # "solveError"
     /\ thrown' # "solveError"]_vars

\* The configured solver service is not implemented, its call threw, and the
\* attempt is in the manual wait.
C17_Witness ==
  /\ solver = "other"
  /\ rpc = "b_manual1"
  /\ attempt = 1

\* ---------------------------------------------------------------- C18
\* C18: a manual wait runs only in an interactive context; a challenge found
\* in any other context ends the attempt as blocked; and an attempt never goes
\* on past a manual wait that ran to its deadline (its last poll found no
\* content, so the wait did not break early) while the page still shows what
\* the detection took for a challenge.
C18_ManualOnlyInteractiveElseFail ==
  /\ rpc \in {"b_manual1", "b_mfinal1", "b_manual2", "b_mfinal2"} => Interactive
  /\ err = "captchaTimeout" => Interactive
  /\ err = "captchaBlocked" => ~Interactive
  /\ (rpc = "b_settle" /\ ~page.content) => ~EarlyBlocked(page)
  /\ (rpc = "b_extract" /\ ~page.content) => ~FinalBlocked(page)

\* ---------------------------------------------------------------- C19
\* C19, as the code has it: scrapeWithBrowser touches the shared browser only
\* through its getBrowser call.  Given a headless setting equal to the
\* manager's mode, the call returns the cached connected browser and closes
\* nothing; it closes the cached connected browser exactly when the setting
\* differs from the manager's mode.  Opening and closing the execution's page
\* leaves the cached browser and every browser's connection as they are.
C19_SharedBrowserKeptInSameMode ==
  [][/\ \A c \in Callers, o \in {"headless", "visible"} :
          GetBrowser(c, o) =>
            /\ (IsConnected(browser) /\ IsHeadless(o) = headless) =>
                  /\ browser' = browser
                  /\ pc'[c] = "returned"
                  /\ res'[c] = browser
                  /\ nClose'[c] = 0
            /\ nClose'[c] = 1 <=>
                  (IsConnected(browser) /\ IsHeadless(o) # headless)
     /\ \A c \in Callers :
          (NewPage(c) \/ ClosePage(c) \/ Finish(c)) =>
             /\ browser' = browser
             /\ bconn' = bconn
             /\ headless' = headless]_vars

\* An execution given the manager's mode found the cached browser, got it
\* without a close or a launch, and has its page open on it; the browser is
\* still the cached, connected one.
C19_Witness ==
  \E c \in Callers :
    /\ pc[c] = "page"
    /\ ~early[c]
    /\ ~switching[c]
    /\ nClose[c] = 0
    /\ nLaunch[c] = 0
    /\ res[c] = browser
    /\ IsConnected(browser)

\* C19 as stated: no execution of scrapeWithBrowser, whatever headless
\* setting it is given, closes the shared browser.  Violated by an execution
\* whose setting differs from the manager's mode.
C19_NeverClosesSharedBrowser ==
  \A c \in Callers : nClose[c] = 0

\* ---------------------------------------------------------------- C20
\* C20: while an execution has its page open, no getBrowser call made for
\* another execution ends the browser the page is on.
C20_NoPageClosedByOthers ==
  \A c \in Callers : ~PageClosedUnder(c)

\* ---------------------------------------------------------------- C21
\* C21: every request eventually completes, with a product or an error,
\* even when an outside party never answers.
C21_EveryRequestCompletes == <>(rpc = "done")

\* ---------------------------------------------------------------- C22
\* C22: the request's retries value bounds the attempts of the path that
\* serves the request: at most retries browser attempts with useBrowser, at
\* most retries fetch attempts without it.
C22_RetriesBoundAttempts ==
  /\ useBrowser => nB <= retries
  /\ ~useBrowser => nF <= retries

\* ---------------------------------------------------------------- C23
\* C23: no delay precedes the first attempt of a retry loop; before attempt
\* k >= 2 the browser loop sleeps 3000 * k ms and the fetch loop 2000 * k ms,
\* so within a loop each retry waits longer than the attempt before it.
C23_LinearBackoff ==
  [][/\ B_Attempt =>
          /\ attempt = 1 => delay' = 0
          /\ attempt >= 2 => delay' = 3000 * attempt /\ delay' > delay
     /\ F_Attempt =>
          /\ fattempt = 1 => delay' = 0
          /\ fattempt >= 2 => delay' = 2000 * fattempt /\ delay' > delay]_vars

\* The third browser attempt has begun, after its 9 s.
C23_Witness ==
  /\ rpc = "b_get"
  /\ attempt = 3
  /\ delay = 9000

\* ---------------------------------------------------------------- C24
\* C24, as the code has it: each detection check reports blocked exactly when
\* one of its own signals is on the page.  The final check knows every block
\* signal (captcha phrases and elements, "unusual traffic", "access denied" /
\* "blocked" / "challenge" phrases and elements); the early check knows only
\* the captcha phrases and elements and "unusual traffic".  A page without
\* any signal passes both.
C24_ChecksReportTheirSignals ==
  [][/\ B_EarlyCheck(TRUE) =>
          (rpc' # "b_settle" <=> page.sig \cap {"captcha", "unusual"} # {})
     /\ B_FinalCheck =>
          (rpc' # "b_extract" <=>
             page.sig \cap {"captcha", "unusual", "blocked"} # {})
     /\ (B_EarlyCheck(TRUE) /\ page.sig = {}) => rpc' = "b_settle"
     /\ (B_FinalCheck /\ page.sig = {}) => rpc' = "b_extract"]_vars

\* A page that only carries an "access denied" / "blocked" / "challenge"
\* signal has passed the early check and has been reported by the final one.
C24_Witness ==
  /\ rpc = "b_finally"
  /\ err = "captchaBlocked"
  /\ humanised = "all"
  /\ page.sig = {"blocked"}

\* C24 as stated, for the early check: it reports blocked if and only if a
\* known block signal is on the page.  Violated by a page whose only signal
\* is an "access denied" / "blocked" / "challenge" phrase or element.
C24_EarlyCheckKnowsAllSignals ==
  [][B_EarlyCheck(TRUE) =>
       (rpc' # "b_settle" <=>
          page.sig \cap {"captcha", "unusual", "blocked"} # {})]_vars

\* ---------------------------------------------------------------- C25
\* C25: a lookup of a URL that differs from the URL a product was stored
\* under only in tracking parameters or in an omitted https:// (both parse,
\* their other parameters are the same in the same order, and their
\* protocols are the same once a missing one is read as https) finds the
\* product, the two keys being equal; and normalising a normalised URL
\* changes nothing.
C25_KeysIgnoreTracking ==
  LET Tracking == {"utm_source", "utm_medium", "utm_campaign", "utm_term",
                   "utm_content", "ref", "source", "spm", "scm"}
      Rest(q) == SelectSeq(q, LAMBDA n : n \notin Tracking)
      Proto(w) == IF w.scheme \in {"none", "slashes"} THEN "https" ELSE w.scheme
      SameButTracking(u, v) ==
        /\ u.valid /\ v.valid
        /\ Rest(u.query) = Rest(v.query)
        /\ Proto(u) = Proto(v)
  IN /\ (storedUrl # NoUrl /\ lookedUrl # NoUrl
           /\ SameButTracking(storedUrl, lookedUrl)) =>
          /\ getCacheKey(storedUrl) = getCacheKey(lookedUrl)
          /\ hit
     /\ lookedUrl # NoUrl =>
          normalizeUrl(normalizeUrl(lookedUrl)) = normalizeUrl(lookedUrl)

\* A product stored under "https://...?utm_source=..&id=..&spm=.." has been
\* found by a lookup of "...?id=.." written without protocol.
C25_Witness ==
  /\ storedUrl = [scheme |-> "https", valid |-> TRUE,
                  query |-> <<"utm_source", "id">>]
  /\ lookedUrl = [scheme |-> "none", valid |-> TRUE, query |-> <<"id">>]
  /\ hit

\* C26: on SIGTERM or SIGINT the shared browser is cleaned up before the
\* process exits: once the process has exited, no browser the manager launched
\* is still running and no launch is still in flight, and the signal handlers
\* have called browser.close() on a browser at most once.
C26_CleanShutdown ==
  /\ down = "exited" => Alive = {} /\ InFlight = {}
  /\ SigCloseCalls <= 1


\* C27: the early detection check runs only after the wait for page text
\* (trimmed body text longer than 50 characters, at most 15 s) has ended,
\* with the text seen or with the wait timed out; a timed-out wait does not
\* end the attempt, the early check follows it all the same.
C27_EarlyCheckAfterContentWait ==
  [][/\ (rpc' = "b_early" /\ rpc # "b_early")
          => contentWait' \in {"appeared", "timeout"}
     /\ (rpc = "b_nav" /\ contentWait' # "none") => rpc' = "b_early"]_vars

\* The early check is about to run on a page whose text never showed during
\* the wait and that has no content.
C27_Witness ==
  /\ rpc = "b_early"
  /\ contentWait = "timeout"
  /\ ~page.content

\* C27 as stated: the early check runs only once the page has reported
\* non-trivial text.
C27_EarlyCheckOnlyOnText == rpc = "b_early" => contentWait = "appeared"


\* C28: in every browser attempt the randomized delay before the navigation
\* precedes both detection checks, while the pointer movement and the
\* scrolling come between them: the early check runs with the delay done and
\* the pointer and scrolling steps still to come, the final check runs with
\* all of them done.
C28_HumanStepsAroundChecks ==
  /\ rpc = "b_early" => humanised = "delay"
  /\ rpc = "b_final" => humanised = "all"

\* The final check of a second attempt is about to run, after the pointer
\* movement and the scrolling.
C28_Witness ==
  /\ rpc = "b_final"
  /\ attempt = 2
  /\ humanised = "all"

\* C28 as stated: the whole human-like sequence precedes every detection
\* check, the early one included.
C28_HumanStepsBeforeAnyCheck ==
  rpc \in {"b_early", "b_final"} => humanised = "all"


\* C29: the automatic solving is taken as solved (its try block throws
\* nothing) only if the page after the token injection is one the early check
\* reports as not blocked.
C29_SolvedMeansEarlyCheckClear ==
  [][\A np \in PageStates :
       (B_Solve("token", np) /\ SolveThrown("token", RecheckClear(np)) = "none")
         => ~EarlyBlocked(np)]_vars


\* C30: solveWith2Captcha polls only after a submission that was accepted;
\* every poll is started exactly one polling interval after a loop condition
\* that found the elapsed time below the timeout; the call returns success
\* exactly when its last poll returned a token; and a rejected or failed
\* submission, an error reply or a failed poll, or the loop condition finding
\* the timeout reached, return failure.
C30_PollingProtocol ==
  /\ polls > 0 => submitted = "ok"
  /\ spc = "poll" => (headAt < ctimeout /\ pollAt = headAt + cinterval)
  /\ spc = "done" => sres \in {"success", "failure"}
  /\ spc = "done" => ((sres = "success") = (lastReply = "token"))
  /\ (spc = "done" /\ lastReply = "notready") => elapsed >= ctimeout
  /\ spc # "done" => sres = "none"

\* A call has returned success on its second poll.
C30_Witness ==
  /\ spc = "done"
  /\ sres = "success"
  /\ polls = 2

\* C30 as stated: no poll is started once the elapsed time has reached the
\* timeout.
C30_NoPollPastTimeout == spc = "poll" => pollAt < ctimeout


\* ---------------------------------------------------------------- C31
\* C31: a fetch attempt that fails on an access-denied / blocked / captcha
\* page ends the fetch loop at once: while every fetch attempt so far ended on
\* such a page, there has been one attempt only and the request is over.
C31_DeniedEndsFetchLoop ==
  (nF >= 1 /\ fAllDenied) => (nF = 1 /\ rpc = "done")


C33_ExtractOnlyUnblocked == rpc = "b_extract" => ~FinalBlocked(page)


\* ---------------------------------------------------------------- C34
\* C34: a 'disconnected' event of a browser that is not the cached one leaves
\* the cached handle of a connected browser in place.
C34_LateDisconnectKeepsNewer ==
  [][\A b \in Launches :
       (Disconnected(b) /\ b # browser /\ IsConnected(browser))
         => browser' = browser]_vars


\* ---------------------------------------------------------------- C35
\* C35: the manager's recorded headless mode is the mode of the cached
\* browser, and of every launch in flight that has read its launch options.
C35_RecordedModeIsBrowserMode ==
  /\ browser # 0 => lmode[browser] = headless
  /\ \A l \in Launches : lst[l] \in {"spawn", "respawn"} => lmode[l] = headless


\* ---------------------------------------------------------------- C36
\* C36: a launch that fails leaves the manager idle (no cached handle, not
\* launching, no launch promise); a getBrowser call that arrives at an idle
\* manager starts a launch of its own, no call ever begins to wait for a
\* launch that has failed, and no call is given a browser a failed launch
\* was to make.
C36_FailedLaunchLeavesIdle ==
  [][/\ \A l \in Launches :
          (lst[l] \in {"spawn", "respawn"} /\ lst'[l] = "failed") =>
             /\ browser' = 0
             /\ ~isLaunching'
             /\ launchPromise' = 0
     /\ \A c \in Callers :
          (pc[c] = "idle" /\ pc'[c] \in {"launching", "joined"}) =>
             /\ lst[tgt'[c]] # "failed"
             /\ (browser = 0 /\ ~isLaunching) =>
                   (pc'[c] = "launching" /\ lst[tgt'[c]] = "none")
     /\ \A c \in Callers : res'[c] > 0 => lst'[res'[c]] = "ok"]_vars

\* After launch 1 failed, a call has started launch 2 and awaits it.
C36_Witness ==
  \E c \in Callers :
    /\ lst[1] = "failed"
    /\ pc[c] = "launching"
    /\ tgt[c] = 2
    /\ lst[2] \in {"access", "spawn"}


\* ---------------------------------------------------------------- C37
\* C37: once the cache is disabled it stays disabled, whatever Redis event
\* follows, and while it is disabled the handler calls neither the cache
\* read nor the cache write.
C37_DisabledCacheStaysOff ==
  [][~cacheEnabled =>
       /\ ~cacheEnabled'
       /\ cacheReads' = cacheReads
       /\ cacheWrites' = cacheWrites]_vars

\* A request that found the cache disabled has returned a scraped product
\* without reading or writing the cache.
C37_Witness ==
  /\ rpc = "done"
  /\ ~cacheEnabled
  /\ ~forceRefresh
  /\ outcome = "product"
  /\ ~cached
  /\ cacheReads = 0
  /\ cacheWrites = 0


\* ---------------------------------------------------------------- C38
\* C38: between the attempts of scrapeCheckoutFromUrlWithBrowser and after
\* it has finished, every browser it launched has been closed and none is
\* running; when an attempt's browser is closed its pages have been closed
\* already; and the manager's shared browser is never obtained or closed.
C38_CheckoutBrowsersClosed ==
  /\ qpc \in {"attempt", "launch", "done"} =>
        /\ ~qBrowserOpen
        /\ ~qPageOpen
        /\ qBrowserCloses = qLaunched
  /\ qpc = "browserclose" => qPageCloses = qPages
  /\ qBrowserCloses <= qLaunched
  /\ calls = 0 /\ browser = 0 /\ Alive = {} /\ InFlight = {}

\* Both attempts of a call launched a browser and failed; the call has
\* finished with both browsers closed.
C38_Witness ==
  /\ qpc = "done"
  /\ qoutcome = "error"
  /\ qLaunched = 2
  /\ qBrowserCloses = 2
  /\ qPages = qPageCloses


\* ---------------------------------------------------------------- C39
\* C39: the end of a browser attempt does not depend on page.close(): an
\* attempt that scraped a product returns it (the retry loop's catch does not
\* run), and an attempt that failed hands its own error to the retry loop.
C39_CloseFailureKeepsOutcome ==
  [][rpc = "b_finally" =>
       IF err = "none"
       THEN /\ rpc' \in {"c_write", "done"}
            /\ rpc' = "done" => outcome' = "product"
            /\ bLast' = bLast
            /\ thrown' = thrown
       ELSE bLast' = err]_vars

\* A request has returned the product of its second browser attempt although
\* closing that attempt's page failed.
C39_Witness ==
  /\ rpc = "done"
  /\ outcome = "product"
  /\ nB = 2
  /\ nF = 0
  /\ closeRes = "failed"

====
